---- MODULE Spec2Model ----
(***************************************************************************)
(* The bridge layer of arch-manager: BackendCaller (src/bridge/backend.py) *)
(* with the error classifier (src/bridge/errors.py) and the Response       *)
(* schema (src/bridge/protocol.py).                                        *)
(*                                                                         *)
(* Text is a sequence of one-character strings, so that splitting,         *)
(* joining and character replacement are things the model can get wrong.   *)
(* A Python scalar is a tagged record with one slot per type.              *)
(***************************************************************************)
EXTENDS Integers, Sequences, FiniteSets, TLC

\* ------------------------------------------------------------------ bounds

\* Largest cost of a params mapping drawn for command construction: one per
\* key present plus one per list element or options entry.
MaxItems == 4

\* Largest cost of a params mapping passed to call.
MaxCallItems == 1

\* Largest timeout (seconds) passed explicitly to the constructor or to call.
MaxTimeout == 1

\* The most packages one loop over packages is given.
MaxPackages == 2

\* Default of BackendCaller.__init__'s timeout parameter.
DefaultTimeout == 300

\* ------------------------------------------------------------ Python values

PyStr(s) == [t |-> "str", s |-> s, n |-> 0, b |-> FALSE]

PyInt(n) == [t |-> "int", s |-> <<>>, n |-> n, b |-> FALSE]

PyBool(b) == [t |-> "bool", s |-> <<>>, n |-> 0, b |-> b]

PyNone == [t |-> "none", s |-> <<>>, n |-> 0, b |-> FALSE]

\* bool(v): Python truthiness of a scalar.
Truthy(v) ==
    CASE v.t = "str" -> v.s # <<>>
      [] v.t = "int" -> v.n # 0
      [] v.t = "bool" -> v.b
      [] OTHER -> FALSE

Digit(d) ==
    CASE d = 0 -> "0" [] d = 1 -> "1" [] d = 2 -> "2" [] d = 3 -> "3"
      [] d = 4 -> "4" [] d = 5 -> "5" [] d = 6 -> "6" [] d = 7 -> "7"
      [] d = 8 -> "8" [] d = 9 -> "9"

RECURSIVE IntText(_)
IntText(n) ==
    IF n < 10 THEN <<Digit(n)>> ELSE IntText(n \div 10) \o <<Digit(n % 10)>>

\* str(v) of a scalar.
ToText(v) ==
    CASE v.t = "str" -> v.s
      [] v.t = "int" -> IntText(v.n)
      [] v.t = "bool" -> IF v.b THEN <<"T", "r", "u", "e">>
                                ELSE <<"F", "a", "l", "s", "e">>
      [] OTHER -> <<"N", "o", "n", "e">>

\* ------------------------------------------------------------------- texts

zsh == <<"z", "s", "h">>

package == <<"p", "a", "c", "k", "a", "g", "e">>

font == <<"f", "o", "n", "t">>

install == <<"i", "n", "s", "t", "a", "l", "l">>

vim == <<"v", "i", "m">>

no_confirm == <<"n", "o", "_", "c", "o", "n", "f", "i", "r", "m">>

as_deps == <<"a", "s", "_", "d", "e", "p", "s">>

BackendPath == <<"/", "b">>

Modules == {package, font}

\* ---------------------------------------------------------- params mappings

Absent == [k |-> "absent", items |-> <<>>, v |-> PyNone]

ListOf(items) == [k |-> "list", items |-> items, v |-> PyNone]

\* A value that is neither a list nor (for options) a mapping.
Other(v) == [k |-> "other", items |-> <<>>, v |-> v]

\* An options mapping, in insertion order: a sequence of entries.
DictOf(entries) == [k |-> "dict", items |-> entries, v |-> PyNone]

Entry(key, value) == [key |-> key, value |-> value]

SeqsUpTo(S, n) == UNION { [1..m -> S] : m \in 0..n }

\* Cost of one params field: one for the key, one per element or entry.
Cost(f) == IF f.k = "absent" THEN 0 ELSE 1 + Len(f.items)

PackagesWithin(n) ==
    {Absent} \cup
    (IF n < 1 THEN {}
     ELSE {Other(PyStr(vim)), Other(PyStr(<<"-", "e">>)), Other(PyInt(3))}
              \cup { ListOf(s) :
                       s \in SeqsUpTo({ PyStr(vim), PyStr(<<"-", "e">>),
                                        PyStr(<<"a", " ", "b">>),
                                        PyStr(<<"p", ";", "q">>), PyStr(<<>>),
                                        PyInt(3) }, n - 1) })

QueryWithin(n) ==
    {Absent} \cup (IF n < 1 THEN {} ELSE { Other(PyStr(<<"a", " ", "b">>)), Other(PyInt(7)) })

ArgsWithin(n) ==
    {Absent} \cup
    (IF n < 1 THEN {}
     ELSE {Other(PyInt(3))}
              \cup { ListOf(s) :
                       s \in SeqsUpTo({ PyInt(12), PyStr(<<"x", " ", "y">>),
                                        PyBool(TRUE) }, n - 1) })

OptionsWithin(n) ==
    {Absent} \cup
    (IF n < 1 THEN {}
     ELSE {Other(PyStr(vim))}
              \cup { DictOf(s) :
                       s \in { e \in SeqsUpTo(
                                          [key : { PyStr(no_confirm), PyStr(as_deps),
                                                   PyInt(1) },
                                           value : { PyBool(TRUE), PyBool(FALSE),
                                                     PyInt(3),
                                                     PyStr(<<"x", " ", "y">>) }],
                                          n - 1) :
                                 \A i, j \in 1..Len(e) :
                                     e[i].key = e[j].key => i = j } })

Params(pk, q, a, o) ==
    [packages |-> pk, query |-> q, args |-> a, options |-> o, others |-> <<>>]

\* Every params mapping over the pools above whose cost is at most n.
ParamsWithin(n) ==
    UNION { UNION { UNION {
        { Params(pk, q, a, o) :
            o \in OptionsWithin(n - Cost(pk) - Cost(q) - Cost(a)) }
        : a \in ArgsWithin(n - Cost(pk) - Cost(q)) }
        : q \in QueryWithin(n - Cost(pk)) }
        : pk \in PackagesWithin(n) }

AllParams == ParamsWithin(MaxItems)

\* The inputs call is given as params: None, or a mapping.
ParamsInputs ==
    {[none |-> TRUE, map |-> Params(Absent, Absent, Absent, Absent)]}
        \cup { [none |-> FALSE, map |-> p] : p \in ParamsWithin(MaxCallItems) }

\* params or {}
ParamsOrEmpty(pin) ==
    IF pin.none THEN Params(Absent, Absent, Absent, Absent) ELSE pin.map

\* ------------------------------------------------------ command construction

\* backend_dir / f"{module}.zsh"
ScriptPath(backend_dir, module) ==
    [parent |-> backend_dir, name |-> module \o <<".", "z", "s", "h">>]

\* str(path)
PathText(path) == path.parent \o <<"/">> \o path.name

\* Mutant of AddPackages: the names joined into one argument.
RECURSIVE JoinText(_, _)
JoinText(items, i) ==
    IF i > Len(items) THEN <<>>
    ELSE ToText(items[i]) \o (IF i < Len(items) THEN <<" ">> ELSE <<>>)
             \o JoinText(items, i + 1)

AddPackages_Joined(cmd, params) ==
    CASE params.packages.k = "absent" -> cmd
      [] params.packages.k = "list" ->
           Append(cmd, PyStr(JoinText(params.packages.items, 1)))
      [] OTHER -> Append(cmd, PyStr(ToText(params.packages.v)))

\* if "packages" in params: extend with the list, or append str(packages)
AddPackages(cmd, params) ==
    CASE params.packages.k = "absent" -> cmd
      [] params.packages.k = "list" -> cmd \o params.packages.items
      [] OTHER -> Append(cmd, PyStr(ToText(params.packages.v)))

\* Mutant of AddQuery: the values under other keys are appended as well.
AddQuery_OtherKeys(cmd, params) ==
    (CASE params.query.k = "absent" -> cmd
       [] OTHER -> Append(cmd, PyStr(ToText(params.query.v))))
        \o [i \in 1..Len(params.others) |-> PyStr(params.others[i].key.s)]

\* if "query" in params: cmd.append(str(params["query"]))
AddQuery(cmd, params) ==
    IF params.query.k = "absent" THEN cmd
    ELSE Append(cmd, PyStr(ToText(params.query.v)))

\* if "args" in params: extend with str(arg) of each, or append str(args)
AddArgs(cmd, params) ==
    CASE params.args.k = "absent" -> cmd
      [] params.args.k = "list" ->
           cmd \o [i \in 1..Len(params.args.items) |->
                     PyStr(ToText(params.args.items[i]))]
      [] OTHER -> Append(cmd, PyStr(ToText(params.args.v)))

\* f"--{key.replace('_', '-')}"
Flag(key) ==
    PyStr(<<"-", "-">> \o [i \in 1..Len(key.s) |->
                              IF key.s[i] = "_" THEN "-" ELSE key.s[i]])

\* Mutant of OptionFlags: the test of value on booleans left out.
OptionFlags_FalseEmits(key, value) ==
    IF value.t = "bool" THEN <<Flag(key)>>
    ELSE <<Flag(key), PyStr(ToText(value))>>

\* One iteration of the options loop: what it appends to cmd.
OptionFlags(key, value) ==
    IF value.t = "bool"
    THEN IF value.b THEN <<Flag(key)>> ELSE <<>>
    ELSE <<Flag(key), PyStr(ToText(value))>>

Built(cmd) == [exc |-> "", cmd |-> cmd]

BuildRaises(exc) == [exc |-> exc, cmd |-> <<>>]

\* for key, value in options.items(): ...
RECURSIVE OptionsLoop(_, _, _)
OptionsLoop(cmd, entries, i) ==
    IF i > Len(entries) THEN Built(cmd)
    ELSE IF /\ entries[i].value.t = "bool" => entries[i].value.b
            /\ entries[i].key.t # "str"
         THEN BuildRaises("AttributeError")
         ELSE OptionsLoop(cmd \o OptionFlags(entries[i].key, entries[i].value),
                          entries, i + 1)

\* if "options" in params: ...
AddOptions(cmd, params) ==
    CASE params.options.k = "absent" -> Built(cmd)
      [] params.options.k = "dict" -> OptionsLoop(cmd, params.options.items, 1)
      [] OTHER -> BuildRaises("AttributeError")

\* BackendCaller._build_command
BuildCommand(shell, script_path, action, params) ==
    AddOptions(
        AddArgs(
            AddQuery(
                AddPackages(<<PyStr(shell), PyStr(PathText(script_path)), PyStr(action)>>,
                            params),
                params),
            params),
        params)

\* ------------------------------------------------------- outcomes of a call

\* An error code: text, or what a backend may send in its place.
Code(name) == [t |-> "str", name |-> name]

CodeInt == [t |-> "int", name |-> "5"]

CodeNull == [t |-> "none", name |-> ""]

\* A JSON array under "code": unhashable once decoded.
CodeList == [t |-> "list", name |-> ""]

unknown == <<"u", "n", "k", "n", "o", "w", "n">>

\* A decoded JSON value is Other(scalar), ListOf(values) or DictOf(entries),
\* the elements and the entries' values being decoded values in turn.

\* repr of a value inside a list. (A list or mapping nested in a list is
\* shown by its brackets alone.)
Repr(c) ==
    CASE c.k = "other" ->
           IF c.v.t = "str" THEN <<"'">> \o c.v.s \o <<"'">> ELSE ToText(c.v)
      [] c.k = "list" -> <<"[", "]">>
      [] OTHER -> <<"{", "}">>

RECURSIVE ReprItems(_, _)
ReprItems(items, i) ==
    IF i > Len(items) THEN <<>>
    ELSE Repr(items[i]) \o (IF i < Len(items) THEN <<",", " ">> ELSE <<>>)
             \o ReprItems(items, i + 1)

\* str(value) as an f-string formats a decoded value. (A mapping is shown
\* by its braces alone.)
Str(c) ==
    CASE c.k = "other" -> ToText(c.v)
      [] c.k = "list" -> <<"[">> \o ReprItems(c.items, 1) \o <<"]">>
      [] OTHER -> <<"{", "}">>

\* bool(value) of a decoded value.
Nonempty(c) ==
    CASE c.k = "other" -> Truthy(c.v)
      [] c.k = "absent" -> FALSE
      [] OTHER -> c.items # <<>>

\* The fields of a returned Response other than its status, and those of a
\* Request (action, params, metadata); all Absent when nothing was returned.
NoResponse == [data |-> Absent, error |-> Absent, message |-> Absent,
               timestamp |-> Absent, metadata |-> Absent, action |-> Absent,
               params |-> Absent]

\* What call or the constructor returned or raised. message is the
\* exception's message; its fixed fragments are one element each. detail is
\* the attribute a subclass adds (package_name, conflicting_packages, field,
\* command); timeout, script_path and raw_output are the others; response is
\* the Response returned.
NoResult ==
    [kind |-> "none", exc |-> "", code |-> CodeNull, timeout |-> PyNone,
     script_path |-> Absent, status |-> "", error |-> "absent",
     message |-> PyNone, detail |-> Absent, raw_output |-> PyNone,
     response |-> NoResponse]

\* BackendError.__init__: code or "UNKNOWN_ERROR"
BackendError(message, code) ==
    [NoResult EXCEPT !.kind = "raise", !.exc = "BackendError",
                     !.message = message,
                     !.code = IF (code.t = "str" /\ code.name # "") \/ code.t = "int"
                              THEN code ELSE Code("UNKNOWN_ERROR")]

BackendTimeoutError(message, timeout) ==
    [NoResult EXCEPT !.kind = "raise", !.exc = "BackendTimeoutError",
                     !.message = message,
                     !.code = Code("TIMEOUT"), !.timeout = timeout]

InvalidResponseError(message, raw_output) ==
    [NoResult EXCEPT !.kind = "raise", !.exc = "InvalidResponseError",
                     !.message = message,
                     !.code = Code("INVALID_RESPONSE"), !.raw_output = raw_output]

\* InvalidResponseError.__str__: the length of the preview of raw_output.
PreviewLen == 100

\* InvalidResponseError.__str__ of a raised InvalidResponseError.
InvalidResponseStr(r) ==
    IF Truthy(r.raw_output)
    THEN r.message.s \o <<"\nRaw output: ">>
             \o (IF Len(r.raw_output.s) > PreviewLen
                 THEN SubSeq(r.raw_output.s, 1, PreviewLen) \o <<"...">>
                 ELSE r.raw_output.s)
    ELSE r.message.s

\* BackendNotFoundError.__init__, given whatever value it is constructed with.
NotFoundWith(script_path) ==
    [NoResult EXCEPT !.kind = "raise", !.exc = "BackendNotFoundError",
                     !.message = PyStr(<<"Backend script not found: ">>
                                           \o Str(script_path)),
                     !.code = Code("SCRIPT_NOT_FOUND"), !.script_path = script_path]

\* BackendNotFoundError(str(path))
BackendNotFoundError(script_path) == NotFoundWith(Other(PyStr(script_path)))

PermissionError(message) ==
    [NoResult EXCEPT !.kind = "raise", !.exc = "PermissionError",
                     !.message = message, !.code = Code("PERMISSION_DENIED")]

PackageNotFoundError(package_name) ==
    [NoResult EXCEPT !.kind = "raise", !.exc = "PackageNotFoundError",
                     !.message = PyStr(<<"Package not found: ">> \o Str(package_name)),
                     !.code = Code("PACKAGE_NOT_FOUND"), !.detail = package_name]

\* conflicting_packages or []
DependencyError(message, conflicting_packages) ==
    [NoResult EXCEPT !.kind = "raise", !.exc = "DependencyError",
                     !.message = message, !.code = Code("DEPENDENCY_CONFLICT"),
                     !.detail = IF Nonempty(conflicting_packages)
                                THEN conflicting_packages ELSE ListOf(<<>>)]

ValidationError(message, field) ==
    [NoResult EXCEPT !.kind = "raise", !.exc = "ValidationError",
                     !.message = message, !.code = Code("VALIDATION_ERROR"),
                     !.detail = field]

SystemError(message, command) ==
    [NoResult EXCEPT !.kind = "raise", !.exc = "SystemError",
                     !.message = message, !.code = Code("SYSTEM_ERROR"),
                     !.detail = command]

\* An exception that is no BackendError, leaving the bridge as it is.
Escapes(exc) == [NoResult EXCEPT !.kind = "raise", !.exc = exc]

Returns(status, error) ==
    [NoResult EXCEPT !.kind = "return", !.status = status, !.error = error]

\* BackendError and its subclasses.
BridgeErrors ==
    { "BackendError", "BackendTimeoutError", "InvalidResponseError",
      "BackendNotFoundError", "PermissionError", "PackageNotFoundError",
      "DependencyError", "ValidationError", "SystemError" }

\* ------------------------------------------------------------- JSON text

\* The names that occur in responses: the keys of a response, of its error
\* mapping and of details, the status values (bogus: a status that is none
\* of the four) and the error codes.
Names ==
    { "status", "error", "data", "message", "timestamp", "metadata",
      "code", "details", "path", "package", "conflicting_packages", "field",
      "command", "success", "warning", "info", "bogus", "TIMEOUT",
      "INVALID_RESPONSE", "SCRIPT_NOT_FOUND", "PERMISSION_DENIED",
      "PACKAGE_NOT_FOUND", "DEPENDENCY_CONFLICT", "VALIDATION_ERROR",
      "SYSTEM_ERROR", "WEIRD", "UNKNOWN_ERROR", "action", "params", "packages",
      "count", "" }

\* The characters of a name.
Spelling(n) ==
    CASE n = "status" -> <<"s", "t", "a", "t", "u", "s">>
      [] n = "error" -> <<"e", "r", "r", "o", "r">>
      [] n = "data" -> <<"d", "a", "t", "a">>
      [] n = "message" -> <<"m", "e", "s", "s", "a", "g", "e">>
      [] n = "timestamp" -> <<"t", "i", "m", "e", "s", "t", "a", "m", "p">>
      [] n = "metadata" -> <<"m", "e", "t", "a", "d", "a", "t", "a">>
      [] n = "code" -> <<"c", "o", "d", "e">>
      [] n = "details" -> <<"d", "e", "t", "a", "i", "l", "s">>
      [] n = "path" -> <<"p", "a", "t", "h">>
      [] n = "package" -> <<"p", "a", "c", "k", "a", "g", "e">>
      [] n = "conflicting_packages" ->
           <<"c", "o", "n", "f", "l", "i", "c", "t", "i", "n", "g", "_", "p", "a",
             "c", "k", "a", "g", "e", "s">>
      [] n = "field" -> <<"f", "i", "e", "l", "d">>
      [] n = "command" -> <<"c", "o", "m", "m", "a", "n", "d">>
      [] n = "success" -> <<"s", "u", "c", "c", "e", "s", "s">>
      [] n = "warning" -> <<"w", "a", "r", "n", "i", "n", "g">>
      [] n = "info" -> <<"i", "n", "f", "o">>
      [] n = "bogus" -> <<"b", "o", "g", "u", "s">>
      [] n = "TIMEOUT" -> <<"T", "I", "M", "E", "O", "U", "T">>
      [] n = "INVALID_RESPONSE" ->
           <<"I", "N", "V", "A", "L", "I", "D", "_", "R", "E", "S", "P", "O", "N",
             "S", "E">>
      [] n = "SCRIPT_NOT_FOUND" ->
           <<"S", "C", "R", "I", "P", "T", "_", "N", "O", "T", "_", "F", "O", "U",
             "N", "D">>
      [] n = "PERMISSION_DENIED" ->
           <<"P", "E", "R", "M", "I", "S", "S", "I", "O", "N", "_", "D", "E", "N",
             "I", "E", "D">>
      [] n = "PACKAGE_NOT_FOUND" ->
           <<"P", "A", "C", "K", "A", "G", "E", "_", "N", "O", "T", "_", "F", "O",
             "U", "N", "D">>
      [] n = "DEPENDENCY_CONFLICT" ->
           <<"D", "E", "P", "E", "N", "D", "E", "N", "C", "Y", "_", "C", "O", "N",
             "F", "L", "I", "C", "T">>
      [] n = "VALIDATION_ERROR" ->
           <<"V", "A", "L", "I", "D", "A", "T", "I", "O", "N", "_", "E", "R", "R",
             "O", "R">>
      [] n = "SYSTEM_ERROR" ->
           <<"S", "Y", "S", "T", "E", "M", "_", "E", "R", "R", "O", "R">>
      [] n = "WEIRD" -> <<"W", "E", "I", "R", "D">>
      [] n = "UNKNOWN_ERROR" ->
           <<"U", "N", "K", "N", "O", "W", "N", "_", "E", "R", "R", "O", "R">>
      [] n = "action" -> <<"a", "c", "t", "i", "o", "n">>
      [] n = "params" -> <<"p", "a", "r", "a", "m", "s">>
      [] n = "packages" -> <<"p", "a", "c", "k", "a", "g", "e", "s">>
      [] n = "count" -> <<"c", "o", "u", "n", "t">>
      [] n = "" -> <<>>

\* The name a text spells; "?" for a text that spells none.
NameOf(text) ==
    IF \E n \in Names : Spelling(n) = text
    THEN CHOOSE n \in Names : Spelling(n) = text
    ELSE "?"

\* str.strip(): the text without its leading and trailing whitespace.
Whitespace == {" ", "\t", "\n", "\r"}

Strip(text) ==
    LET keep == { i \in 1..Len(text) : text[i] \notin Whitespace }
    IN  IF keep = {} THEN <<>>
        ELSE SubSeq(text, CHOOSE i \in keep : \A j \in keep : i <= j,
                          CHOOSE i \in keep : \A j \in keep : j <= i)

\* s[i:i+1], counting from 1: "" past the end.
At(s, i) == IF i <= Len(s) THEN s[i] ELSE ""

\* The first index from i on that holds no whitespace.
SkipWs(s, i) ==
    CHOOSE j \in i..(Len(s) + 1) :
        /\ (j = Len(s) + 1 \/ s[j] \notin Whitespace)
        /\ \A k \in i..(j - 1) : s[k] \in Whitespace

Digits == {"0", "1", "2", "3", "4", "5", "6", "7", "8", "9"}

\* The first index from i on that holds no digit.
SkipDigits(s, i) ==
    CHOOSE j \in i..(Len(s) + 1) :
        /\ (j = Len(s) + 1 \/ s[j] \notin Digits)
        /\ \A k \in i..(j - 1) : s[k] \in Digits

RECURSIVE IntValue(_, _, _)
IntValue(s, i, j) ==
    IF j <= i THEN 0
    ELSE IntValue(s, i, j - 1) * 10 + (CHOOSE d \in 0..9 : Digit(d) = s[j - 1])

\* What the scanner yields: a value and the index after it, or the
\* JSONDecodeError's message and position.
Decoded(value, end) == [ok |-> TRUE, value |-> value, end |-> end, err |-> ""]

DecodeError(err, pos) == [ok |-> FALSE, value |-> Absent, end |-> pos, err |-> err]

\* A number that is not an int.
PyFloat == [t |-> "float", s |-> <<>>, n |-> 0, b |-> FALSE]

\* json.decoder.scanstring from the index after the opening quote: the
\* characters up to the closing quote, with the two-character escapes. (A \u
\* escape is refused here; no text drawn holds one.)
RECURSIVE ScanString(_, _, _, _)
ScanString(s, begin, i, acc) ==
    LET c == At(s, i)
        e == At(s, i + 1)
    IN  CASE c = "" -> DecodeError("Unterminated string starting at", begin - 1)
          [] c = "\"" -> Decoded(Other(PyStr(acc)), i + 1)
          [] c \in {"\n", "\t", "\r"} -> DecodeError("Invalid control character at", i)
          [] c = "\\" ->
               CASE e = "" -> DecodeError("Unterminated string starting at", begin - 1)
                 [] e \in {"\"", "\\", "/"} -> ScanString(s, begin, i + 2, Append(acc, e))
                 [] e = "n" -> ScanString(s, begin, i + 2, Append(acc, "\n"))
                 [] e = "t" -> ScanString(s, begin, i + 2, Append(acc, "\t"))
                 [] e = "r" -> ScanString(s, begin, i + 2, Append(acc, "\r"))
                 [] OTHER -> DecodeError("Invalid \\escape", i)
          [] OTHER -> ScanString(s, begin, i + 1, Append(acc, c))

\* NUMBER_RE at i: an int, or a float when a fraction or an exponent follows.
ScanNumber(s, i) ==
    LET start == IF At(s, i) = "-" THEN i + 1 ELSE i
        stop == IF At(s, start) = "0" THEN start + 1 ELSE SkipDigits(s, start)
        n == IntValue(s, start, stop)
        fracEnd == IF At(s, stop) = "." THEN SkipDigits(s, stop + 1) ELSE stop
        frac == IF fracEnd > stop + 1 THEN fracEnd ELSE stop
        expFrom == IF At(s, frac + 1) \in {"+", "-"} THEN frac + 2 ELSE frac + 1
        expEnd == IF At(s, frac) \in {"e", "E"} THEN SkipDigits(s, expFrom) ELSE frac
        exp == IF expEnd > expFrom THEN expEnd ELSE frac
    IN  IF stop = start THEN DecodeError("Expecting value", i)
        ELSE IF exp > stop THEN Decoded(Other(PyFloat), exp)
        ELSE Decoded(Other(PyInt(IF start > i THEN 0 - n ELSE n)), stop)

Literal(s, i, word) ==
    i + Len(word) - 1 <= Len(s) /\ SubSeq(s, i, i + Len(word) - 1) = word

RECURSIVE ScanOnce(_, _)
RECURSIVE ScanMembers(_, _, _)
RECURSIVE ScanItems(_, _, _)

\* json.decoder.JSONObject after a member's opening quote at i - 1: the
\* member, then either the closing brace or a comma and the next member.
ScanMembers(s, i, entries) ==
    LET key == ScanString(s, i, i, <<>>)
        colon == SkipWs(s, key.end)
        value == ScanOnce(s, SkipWs(s, colon + 1))
        after == SkipWs(s, value.end)
        next == SkipWs(s, after + 1)
    IN  IF ~key.ok THEN key
        ELSE IF At(s, colon) # ":" THEN DecodeError("Expecting ':' delimiter", colon)
        ELSE IF ~value.ok THEN value
        ELSE IF At(s, after) = "}"
             THEN Decoded(DictOf(Append(entries, Entry(key.value.v, value.value))),
                          after + 1)
        ELSE IF At(s, after) # "," THEN DecodeError("Expecting ',' delimiter", after)
        ELSE IF At(s, next) # "\""
             THEN DecodeError("Expecting property name enclosed in double quotes", next)
        ELSE ScanMembers(s, next + 1, Append(entries, Entry(key.value.v, value.value)))

\* json.decoder.JSONArray from the first element at i.
ScanItems(s, i, items) ==
    LET value == ScanOnce(s, i)
        after == SkipWs(s, value.end)
    IN  IF ~value.ok THEN value
        ELSE IF At(s, after) = "]"
             THEN Decoded(ListOf(Append(items, value.value)), after + 1)
        ELSE IF At(s, after) # "," THEN DecodeError("Expecting ',' delimiter", after)
        ELSE ScanItems(s, SkipWs(s, after + 1), Append(items, value.value))

\* json.scanner.py_make_scanner's _scan_once: the JSON value that starts at i.
ScanOnce(s, i) ==
    LET c == At(s, i)
        first == SkipWs(s, i + 1)
    IN  CASE c = "\"" -> ScanString(s, i + 1, i + 1, <<>>)
          [] c = "{" ->
               CASE At(s, first) = "}" -> Decoded(DictOf(<<>>), first + 1)
                 [] At(s, first) = "\"" -> ScanMembers(s, first + 1, <<>>)
                 [] OTHER ->
                      DecodeError("Expecting property name enclosed in double quotes",
                                  first)
          [] c = "[" ->
               IF At(s, first) = "]" THEN Decoded(ListOf(<<>>), first + 1)
               ELSE ScanItems(s, first, <<>>)
          [] c = "n" /\ Literal(s, i, <<"n", "u", "l", "l">>) ->
               Decoded(Other(PyNone), i + 4)
          [] c = "t" /\ Literal(s, i, <<"t", "r", "u", "e">>) ->
               Decoded(Other(PyBool(TRUE)), i + 4)
          [] c = "f" /\ Literal(s, i, <<"f", "a", "l", "s", "e">>) ->
               Decoded(Other(PyBool(FALSE)), i + 5)
          [] c = "N" /\ Literal(s, i, <<"N", "a", "N">>) ->
               Decoded(Other(PyFloat), i + 3)
          [] c = "I" /\ Literal(s, i, <<"I", "n", "f", "i", "n", "i", "t", "y">>) ->
               Decoded(Other(PyFloat), i + 8)
          [] c = "-" /\ Literal(s, i + 1, <<"I", "n", "f", "i", "n", "i", "t", "y">>) ->
               Decoded(Other(PyFloat), i + 9)
          [] c \in Digits \cup {"-"} -> ScanNumber(s, i)
          [] OTHER -> DecodeError("Expecting value", i)

\* Mutant of RawDecode: text after the value is an error, as json.loads
\* has it.
RawDecode_Whole(s) ==
    LET d == ScanOnce(s, 1)
    IN  IF d.ok /\ SkipWs(s, d.end) <= Len(s)
        THEN DecodeError("Extra data", SkipWs(s, d.end))
        ELSE d

\* json.JSONDecoder().raw_decode(s): the value at the very start of s and
\* the index where it ends; what follows is not looked at.
RawDecode(s) == ScanOnce(s, 1)

\* ------------------------------------------------------------ child output

StatusType == {"success", "error", "warning", "info"}

\* A key of a decoded JSON object.
Key(name) == PyStr(Spelling(name))

nope == <<"n", "o", "p", "e">>

\* The "error" value of a decoded object. k: "absent" (no key, or null),
\* "nondict", or "dict" with its entries: code (when hasCode), message (when
\* hasMessage), details (Absent when there is no such key, else the decoded
\* value) and more (whether it has other keys).
NoError == [k |-> "absent", hasCode |-> FALSE, code |-> CodeNull,
            hasMessage |-> FALSE, message |-> PyNone,
            details |-> Absent, more |-> FALSE]

NonDictError == [NoError EXCEPT !.k = "nondict"]

CodeVals ==
    { Code(c) : c \in { "TIMEOUT", "INVALID_RESPONSE", "SCRIPT_NOT_FOUND",
                        "PERMISSION_DENIED", "PACKAGE_NOT_FOUND",
                        "DEPENDENCY_CONFLICT", "VALIDATION_ERROR", "SYSTEM_ERROR",
                        "WEIRD", "" } }
        \cup {CodeInt, CodeNull, CodeList}

\* {} and {"message": "nope"}
EmptyError == [NoError EXCEPT !.k = "dict"]

MessageOnlyError ==
    [NoError EXCEPT !.k = "dict", !.hasMessage = TRUE, !.message = PyStr(nope)]

\* A details mapping holding every key the classifier reads.
FullDetails ==
    DictOf(<< Entry(Key("path"), Other(PyStr(BackendPath))),
              Entry(Key("package"), Other(PyStr(vim))),
              Entry(Key("conflicting_packages"),
                    ListOf(<<Other(PyStr(vim)), Other(PyStr(zsh))>>)),
              Entry(Key("field"), Other(PyStr(package))),
              Entry(Key("command"), Other(PyStr(install))) >>)

\* details as a backend may send it: no key, a mapping, or text in its place.
DetailsVals == {Absent, FullDetails, Other(PyStr(vim))}

\* The other keys of a response object: the value of each, Absent when the
\* key is missing.
NoFields == [data |-> Absent, message |-> Absent, timestamp |-> Absent,
             metadata |-> Absent]

\* What the child wrote to stdout, as json.JSONDecoder().raw_decode sees the
\* stripped text: nothing decodable at its start ("garbage"), a JSON value
\* that is no object ("nonobject"), or an object with these keys.
Stdouts ==
    { [shape |-> sh, status |-> "absent", error |-> NoError, fields |-> NoFields] :
        sh \in {"garbage", "nonobject"} }
    \cup
    { [shape |-> "object", status |-> st, error |-> e, fields |-> NoFields] :
        st \in (StatusType \ {"error"}) \cup {"absent", "bogus"},
        e \in {NoError, NonDictError, EmptyError, MessageOnlyError} }
    \cup
    { [shape |-> "object", status |-> "error", error |-> e, fields |-> NoFields] :
        e \in {NoError, NonDictError, EmptyError, MessageOnlyError}
                 \cup { [MessageOnlyError EXCEPT !.details = d] :
                          d \in DetailsVals \ {Absent} }
                 \cup { [MessageOnlyError EXCEPT !.hasCode = TRUE, !.code = c,
                                                 !.details = d] :
                          c \in CodeVals, d \in DetailsVals } }

\* ---------------------------------------------------- the child's JSON text
\* The backend scripts print one JSON document; these operators spell the
\* documents above as the text the child writes to stdout.

\* A JSON string literal: quotes and backslashes escaped.
RECURSIVE Escaped(_)
Escaped(text) ==
    IF text = <<>> THEN <<>>
    ELSE (IF Head(text) \in {"\"", "\\"} THEN <<"\\", Head(text)>>
          ELSE IF Head(text) = "\n" THEN <<"\\", "n">>
          ELSE <<Head(text)>>) \o Escaped(Tail(text))

Quoted(text) == <<"\"">> \o Escaped(text) \o <<"\"">>

\* Texts joined by commas.
RECURSIVE Joined(_)
Joined(texts) ==
    IF texts = <<>> THEN <<>>
    ELSE IF Len(texts) = 1 THEN texts[1]
    ELSE texts[1] \o <<",">> \o Joined(Tail(texts))

RECURSIVE Encode(_)
Encode(c) ==
    CASE c.k = "other" /\ c.v.t = "str" -> Quoted(c.v.s)
      [] c.k = "other" /\ c.v.t = "int" ->
            IF c.v.n < 0 THEN <<"-">> \o IntText(0 - c.v.n) ELSE IntText(c.v.n)
      [] c.k = "other" /\ c.v.t = "bool" ->
            IF c.v.b THEN <<"t", "r", "u", "e">> ELSE <<"f", "a", "l", "s", "e">>
      [] c.k = "other" /\ c.v.t = "float" -> <<"0", ".", "5">>
      [] c.k = "other" -> <<"n", "u", "l", "l">>
      [] c.k = "list" ->
            <<"[">> \o Joined([i \in 1..Len(c.items) |-> Encode(c.items[i])]) \o <<"]">>
      [] c.k = "dict" ->
            <<"{">> \o Joined([i \in 1..Len(c.items) |->
                                  Quoted(c.items[i].key.s) \o <<":">>
                                      \o Encode(c.items[i].value)]) \o <<"}">>
      [] OTHER -> <<>>

\* The entries a key contributes to an object: none when the key is absent.
Member(name, present, value) ==
    IF present THEN <<Entry(Key(name), value)>> ELSE <<>>

\* The text of a document.
StdoutText(out) ==
    LET e == out.error
        code == CASE e.code.t = "str" -> Other(PyStr(Spelling(e.code.name)))
                  [] e.code.t = "int" -> Other(PyInt(5))
                  [] e.code.t = "list" -> ListOf(<<>>)
                  [] OTHER -> Other(PyNone)
        error == IF e.k = "nondict" THEN Other(PyStr(nope))
                 ELSE DictOf(Member("code", e.hasCode, code)
                                 \o Member("message", e.hasMessage, Other(e.message))
                                 \o Member("details", e.details.k # "absent", e.details)
                                 \o Member("path", e.more, Other(PyStr(nope))))
    IN
    CASE out.shape = "garbage" -> <<"o", "o", "p", "s">>
      [] out.shape = "nonobject" -> Encode(ListOf(<<Other(PyInt(1))>>))
      [] OTHER ->
            Encode(DictOf(
                Member("status", out.status # "absent",
                       Other(PyStr(Spelling(out.status))))
                    \o Member("error", e.k # "absent", error)
                    \o Member("data", out.fields.data.k # "absent", out.fields.data)
                    \o Member("message", out.fields.message.k # "absent",
                              out.fields.message)
                    \o Member("timestamp", out.fields.timestamp.k # "absent",
                              out.fields.timestamp)
                    \o Member("metadata", out.fields.metadata.k # "absent",
                              out.fields.metadata)))

\* bool(response.error): None and {} are falsy.
ErrorTruthy(e) ==
    e.k = "dict" /\ (e.hasCode \/ e.hasMessage \/ e.details.k # "absent" \/ e.more)

\* Mutant of SchemaOk: any status is accepted.
SchemaOk_AnyStatus(out) ==
    /\ out.shape = "object"
    /\ out.error.k \in {"absent", "dict"}
    /\ out.fields.data.k \in {"absent", "dict"} \/ out.fields.data = Other(PyNone)
    /\ \A f \in {out.fields.message, out.fields.timestamp} :
           f.k = "absent" \/ (f.k = "other" /\ f.v.t \in {"str", "none"})
    /\ out.fields.metadata.k \in {"absent", "dict"}

\* Response(**response_dict): pydantic's validation of the fields modelled.
SchemaOk(out) ==
    /\ out.shape = "object"
    /\ out.status \in StatusType
    /\ out.error.k \in {"absent", "dict"}
    /\ out.fields.data.k \in {"absent", "dict"} \/ out.fields.data = Other(PyNone)
    /\ \A f \in {out.fields.message, out.fields.timestamp} :
           f.k = "absent" \/ (f.k = "other" /\ f.v.t \in {"str", "none"})
    /\ out.fields.metadata.k \in {"absent", "dict"}

\* details.get(name, default) on a mapping: the last entry under that key.
DetailGet(details, name, default) ==
    LET at == { i \in 1..Len(details.items) : details.items[i].key = Key(name) }
    IN  IF at = {} THEN default
        ELSE details.items[CHOOSE i \in at : \A j \in at : j <= i].value

\* errors.parse_backend_error
ParseBackendError(e) ==
    LET code == IF e.hasCode THEN e.code ELSE Code("UNKNOWN_ERROR")
        message == IF e.hasMessage THEN e.message
                   ELSE PyStr(<<"Unknown error occurred">>)
        details == IF e.details.k = "absent" THEN DictOf(<<>>) ELSE e.details
        get(name, default) == DetailGet(details, name, default)
    IN  IF code.t = "list" THEN Escapes("TypeError")
        ELSE IF code.t = "str" /\ details.k # "dict"
                /\ code.name \in { "SCRIPT_NOT_FOUND", "PACKAGE_NOT_FOUND",
                                    "DEPENDENCY_CONFLICT", "VALIDATION_ERROR",
                                    "SYSTEM_ERROR" }
             THEN Escapes("AttributeError")
        ELSE CASE code = Code("TIMEOUT") -> BackendTimeoutError(message, PyInt(0))
               [] code = Code("INVALID_RESPONSE") -> InvalidResponseError(message, PyNone)
               [] code = Code("SCRIPT_NOT_FOUND") ->
                    NotFoundWith(get("path", Other(PyStr(unknown))))
               [] code = Code("PERMISSION_DENIED") -> PermissionError(message)
               [] code = Code("PACKAGE_NOT_FOUND") ->
                    PackageNotFoundError(get("package", Other(PyStr(unknown))))
               [] code = Code("DEPENDENCY_CONFLICT") ->
                    DependencyError(message, get("conflicting_packages", Other(PyNone)))
               [] code = Code("VALIDATION_ERROR") ->
                    ValidationError(message, get("field", Other(PyNone)))
               [] code = Code("SYSTEM_ERROR") ->
                    SystemError(message, get("command", Other(PyNone)))
               [] OTHER -> BackendError(message, code)

\* What raw_decode made of the stripped stdout, as a document: the status
\* as StatusType reads it, the error as _parse_response and
\* parse_backend_error read it (a code that is no text, number or null
\* cannot be looked up; a list or mapping for a message is one value apart
\* from every scalar), and the other fields.
Seen(d) ==
    LET get(name) == DetailGet(d.value, name, Absent)
        status == get("status")
        error == get("error")
        code == DetailGet(error, "code", Absent)
        message == DetailGet(error, "message", Absent)
    IN  IF ~d.ok \/ d.value.k # "dict"
        THEN [shape |-> IF d.ok THEN "nonobject" ELSE "garbage", status |-> "absent",
              error |-> NoError, fields |-> NoFields]
        ELSE [shape |-> "object",
              status |->
                  CASE status.k = "absent" -> "absent"
                    [] /\ status.k = "other"
                       /\ status.v.t = "str"
                       /\ NameOf(status.v.s) \in StatusType -> NameOf(status.v.s)
                    [] OTHER -> "bogus",
              error |->
                  CASE error.k = "absent" \/ error = Other(PyNone) -> NoError
                    [] error.k # "dict" -> NonDictError
                    [] OTHER ->
                        [k |-> "dict",
                         hasCode |-> code.k # "absent",
                         code |-> CASE code.k = "absent" -> CodeNull
                                    [] code.k \in {"list", "dict"} -> CodeList
                                    [] code.v.t = "str" -> Code(NameOf(code.v.s))
                                    [] code.v.t = "none" -> CodeNull
                                    [] OTHER -> CodeInt,
                         hasMessage |-> message.k # "absent",
                         message |-> CASE message.k = "other" -> message.v
                                       [] message.k = "absent" -> PyNone
                                       [] OTHER -> [PyNone EXCEPT !.t = "json"],
                         details |-> DetailGet(error, "details", Absent),
                         more |-> \E i \in 1..Len(error.items) :
                                     error.items[i].key \notin
                                         {Key("code"), Key("message"), Key("details")}],
              fields |-> [data |-> get("data"), message |-> get("message"),
                          timestamp |-> get("timestamp"),
                          metadata |-> get("metadata")]]

\* The fields of the Response built from the decoded object. A missing
\* timestamp keeps the default None, which is not validated; of an explicit
\* null validate_timestamp makes the time of the parse, "now".
ResponseOf(obj) ==
    LET timestamp == DetailGet(obj, "timestamp", Absent)
    IN  [NoResponse EXCEPT
             !.data = DetailGet(obj, "data", Other(PyNone)),
             !.error = DetailGet(obj, "error", Other(PyNone)),
             !.message = DetailGet(obj, "message", Other(PyNone)),
             !.timestamp = CASE timestamp = Absent -> Other(PyNone)
                             [] timestamp = Other(PyNone) -> Other(PyStr(<<"now">>))
                             [] OTHER -> timestamp,
             !.metadata = DetailGet(obj, "metadata", DictOf(<<>>))]

\* _parse_response, from the check of the response's status on.
RaiseIfError(out) ==
    IF out.status = "error" /\ ErrorTruthy(out.error)
    THEN ParseBackendError(out.error)
    ELSE Returns(out.status,
                 IF out.error.k = "absent" THEN "absent"
                 ELSE IF ErrorTruthy(out.error) THEN "dict" ELSE "empty")

\* str(JSONDecodeError): the message, then where in the text.
DecodeErrorText(s, d) ==
    LET pos == d.end - 1
        breaks == { k \in 1..pos : s[k] = "\n" }
        lastBreak == IF breaks = {} THEN 0
                     ELSE CHOOSE k \in breaks : \A j \in breaks : j <= k
    IN  <<d.err, ": line ">> \o IntText(Cardinality(breaks) + 1)
            \o <<" column ">> \o IntText(pos - lastBreak + 1)
            \o <<" (char ">> \o IntText(pos) \o <<")">>

\* str(e) of what Response(**response_dict) raised, in short.
SchemaErrorText(out) ==
    IF out.shape # "object" THEN <<"argument after ** must be a mapping">>
    ELSE <<"validation error for Response">>

\* Mutant of ParseResponse: a non-zero exit code is taken for a failure.
ParseResponse_ChecksExit(completed) ==
    LET stdout == Strip(completed.stdout)
        stderr == Strip(completed.stderr)
        d == RawDecode(stdout)
        out == Seen(d)
        r == RaiseIfError(out)
    IN  IF completed.returncode # 0
        THEN BackendError(PyStr(<<"Backend script failed">>),
                          Code("EXECUTION_FAILED"))
        ELSE IF ~d.ok
        THEN InvalidResponseError(
                 PyStr(<<"Backend returned invalid JSON: ">>
                           \o DecodeErrorText(stdout, d)),
                 PyStr(IF stdout # <<>> THEN stdout ELSE stderr))
        ELSE IF ~SchemaOk(out)
        THEN InvalidResponseError(
                 PyStr(<<"Failed to parse backend response: ">>
                           \o SchemaErrorText(out)),
                 PyStr(stdout))
        ELSE IF r.kind = "return"
        THEN [r EXCEPT !.response = ResponseOf(d.value)]
        ELSE r

\* BackendCaller._parse_response
ParseResponse(completed) ==
    LET stdout == Strip(completed.stdout)
        stderr == Strip(completed.stderr)
        d == RawDecode(stdout)
        out == Seen(d)
        r == RaiseIfError(out)
    IN  IF ~d.ok
        THEN InvalidResponseError(
                 PyStr(<<"Backend returned invalid JSON: ">>
                           \o DecodeErrorText(stdout, d)),
                 PyStr(IF stdout # <<>> THEN stdout ELSE stderr))
        ELSE IF ~SchemaOk(out)
        THEN InvalidResponseError(
                 PyStr(<<"Failed to parse backend response: ">>
                           \o SchemaErrorText(out)),
                 PyStr(stdout))
        ELSE IF r.kind = "return"
        THEN [r EXCEPT !.response = ResponseOf(d.value)]
        ELSE r

\* ------------------------------------------------------------------- state

VARIABLES
    fsKind,      \* what the backend path is: "missing", "file" or "dir"
    fsScripts,   \* the modules whose <module>.zsh exists in the backend directory
    self,        \* the BackendCaller: alive, backend_dir, timeout, shell
    initResult,  \* outcome of the last construction
    pc,          \* "idle", or "running": call is blocked in subprocess.run
    frame,       \* locals of the call in progress
    clock,       \* seconds the child has run
    child,       \* the child process last started: none/running/exited/killed
    spawned,     \* child processes started by the current or last call
    result,      \* what the last call returned or raised
    last,        \* history: the last call's inputs and the file system it saw
    _package_cache  \* pkgman's cache of package names: available, installed

vars == <<fsKind, fsScripts, self, initResult, pc, frame, clock, child, spawned,
          result, last, _package_cache>>

Actions == {install}

\* A parameter left at its default.
NotGiven == [t |-> "notgiven", s |-> <<>>, n |-> 0, b |-> FALSE]

CtorTimeouts == {NotGiven} \cup { PyInt(n) : n \in 0..MaxTimeout }

NoCaller == [alive |-> FALSE, backend_dir |-> <<>>, timeout |-> PyNone, shell |-> <<>>]

\* What subprocess.run returns.
CompletedProcess(stdout, stderr, returncode) ==
    [stdout |-> stdout, stderr |-> stderr, returncode |-> returncode]

NoFrame ==
    [module |-> <<>>, action |-> <<>>, params |-> Params(Absent, Absent, Absent, Absent),
     timeout |-> PyNone, cmd |-> <<>>, eff |-> PyNone,
     completed |-> CompletedProcess(<<>>, <<>>, 0), error_data |-> NoError,
     how |-> "", kwargs |-> Absent, json_str |-> <<>>,
     packages |-> <<>>, outs |-> <<>>, success |-> <<>>, failed |-> <<>>]

\* _package_cache as pkgman.py creates it: both entries None.
NoCache == [available |-> Other(PyNone), installed |-> Other(PyNone)]

\* Above call, the history is of the last operation: op and args name it,
\* calls lists the backend calls it made (the module and action of each, or
\* for the commands and loops over packages the package of each) and before
\* is the cache it found.
NoCall ==
    [called |-> FALSE, module |-> <<>>, scriptPresent |-> FALSE, stage |-> "",
     launch |-> "", earlier |-> NoResult, op |-> "", args |-> <<>>,
     calls |-> <<>>, before |-> NoCache]

Init ==
    /\ fsKind \in {"missing", "file", "dir"}
    /\ fsScripts \in (IF fsKind = "dir" THEN SUBSET Modules ELSE {{}})
    /\ self = NoCaller
    /\ initResult = NoResult
    /\ pc = "idle"
    /\ frame = NoFrame
    /\ clock = 0
    /\ child = "none"
    /\ spawned = 0
    /\ result = NoResult
    /\ last = NoCall
    /\ _package_cache = NoCache

\* ------------------------------------------------------------ construction

\* Mutant of ValidateBackendDir: the is_dir() check left out.
ValidateBackendDir_NoDirCheck(kind) ==
    IF kind = "missing" THEN BackendNotFoundError(BackendPath) ELSE NoResult

\* BackendCaller._validate_backend_dir: NoResult when it raises nothing.
ValidateBackendDir(kind) ==
    CASE kind = "missing" -> BackendNotFoundError(BackendPath)
      [] kind = "file" ->
           BackendError(PyStr(<<"Backend path is not a directory: ">> \o BackendPath),
                        Code("INVALID_BACKEND_PATH"))
      [] OTHER -> NoResult

\* BackendCaller(backend_dir=BackendPath[, timeout=timeout])
Construct(timeout) ==
    /\ pc = "idle"
    /\ ~self.alive
    /\ LET v == ValidateBackendDir(fsKind)
       IN  IF v.kind = "raise"
           THEN /\ initResult' = v
                /\ self' = NoCaller
           ELSE /\ initResult' = [NoResult EXCEPT !.kind = "constructed"]
                /\ self' = [alive |-> TRUE,
                            backend_dir |-> BackendPath,
                            timeout |-> IF timeout = NotGiven
                                        THEN PyInt(DefaultTimeout) ELSE timeout,
                            shell |-> zsh]
    /\ UNCHANGED <<_package_cache, fsKind, fsScripts, pc, frame, clock, child, spawned, result, last>>

\* ------------------------------------------------------------- file system

Mkdir ==
    /\ fsKind = "missing"
    /\ fsKind' = "dir"
    /\ UNCHANGED <<_package_cache, fsScripts, self, initResult, pc, frame, clock, child, spawned,
                   result, last>>

\* Script files come and go between calls. (A change made while a call is
\* blocked in subprocess.run commutes with the rest of that call, which never
\* reads the file system again.)
AddScript(module) ==
    /\ pc = "idle"
    /\ fsKind = "dir"
    /\ module \notin fsScripts
    /\ fsScripts' = fsScripts \cup {module}
    /\ UNCHANGED <<_package_cache, fsKind, self, initResult, pc, frame, clock, child, spawned,
                   result, last>>

RemoveScript(module) ==
    /\ pc = "idle"
    /\ module \in fsScripts
    /\ fsScripts' = fsScripts \ {module}
    /\ UNCHANGED <<_package_cache, fsKind, self, initResult, pc, frame, clock, child, spawned,
                   result, last>>

\* -------------------------------------------------------------------- call

\* Mutants of ScriptExists: the check left out, and the check inverted.
ScriptExists_Always(module) == TRUE

ScriptExists_Inverted(module) == module \notin fsScripts

\* script_path.exists()
ScriptExists(module) == module \in fsScripts

\* _execute_script: timeout = timeout or self.timeout
EffectiveTimeout(timeout, default) == IF Truthy(timeout) THEN timeout ELSE default

\* Mutant of OnTimeoutExpired: the timeout keyword left at its default.
OnTimeoutExpired_NoField(timeout) ==
    BackendTimeoutError(
        PyStr(<<"Backend script timed out after ">> \o ToText(timeout) \o <<"s">>),
        PyInt(0))

\* _execute_script: except subprocess.TimeoutExpired
OnTimeoutExpired(timeout) ==
    BackendTimeoutError(
        PyStr(<<"Backend script timed out after ">> \o ToText(timeout) \o <<"s">>),
        timeout)

\* str(e) of what subprocess.run raises when the child cannot be started.
ErrorText(launch) ==
    IF launch = "typeerror"
    THEN <<"expected str, bytes or os.PathLike object, not int">>
    ELSE <<"[Errno 2] No such file or directory: ">> \o Repr(Other(PyStr(zsh)))

\* Mutant of OnLaunchFailure: the underlying error left out of the message.
OnLaunchFailure_NoText(e) ==
    BackendError(PyStr(<<"Failed to execute backend script">>),
                 Code("EXECUTION_FAILED"))

\* _execute_script: except Exception as e
OnLaunchFailure(e) ==
    BackendError(PyStr(<<"Failed to execute backend script: ">> \o e),
                 Code("EXECUTION_FAILED"))

\* How subprocess.run may start once call reaches it: the child starts, or
\* the operating system refuses (missing interpreter, permission denied);
\* an argument vector that is not all text is refused before any fork.
Launches(module, built) ==
    IF ~ScriptExists(module) \/ built.exc # "" THEN {"unreached"}
    ELSE IF \E i \in 1..Len(built.cmd) : built.cmd[i].t # "str" THEN {"typeerror"}
    ELSE {"started", "oserror"}

\* BackendCaller.call, up to the point where subprocess.run blocks: script
\* resolution, command construction and the start of the child.
Call(module, action, pin, timeout) ==
    /\ pc = "idle"
    /\ self.alive
    /\ LET params == ParamsOrEmpty(pin)
           script_path == ScriptPath(self.backend_dir, module)
           built == BuildCommand(self.shell, script_path, action, params)
       IN  \E launch \in Launches(module, built) :
         LET eff == EffectiveTimeout(timeout, self.timeout)
             seen == [NoCall EXCEPT !.called = TRUE, !.module = module,
                                    !.scriptPresent = module \in fsScripts,
                                    !.stage = "resolve", !.launch = launch]
             raised(r, stage) ==
                 /\ result' = r
                 /\ last' = [seen EXCEPT !.stage = stage]
                 /\ pc' = "idle"
                 /\ frame' = NoFrame
                 /\ child' = child
                 /\ spawned' = 0
         IN  IF ~ScriptExists(module)
             THEN raised(BackendNotFoundError(PathText(script_path)), "resolve")
             ELSE IF built.exc # ""
             THEN raised(Escapes(built.exc), "build")
             ELSE IF launch # "started"
             THEN raised(OnLaunchFailure(ErrorText(launch)), "execute")
             ELSE /\ result' = NoResult
                  /\ last' = [seen EXCEPT !.stage = "execute"]
                  /\ pc' = "running"
                  /\ frame' = [NoFrame EXCEPT !.module = module, !.action = action,
                                              !.params = params, !.timeout = timeout,
                                              !.cmd = built.cmd, !.eff = eff]
                  /\ child' = "running"
                  /\ spawned' = 1
    /\ clock' = 0
    /\ UNCHANGED <<_package_cache, fsKind, fsScripts, self, initResult>>

\* Time passes up to the deadline while the child runs.
Elapse ==
    /\ pc = "running"
    /\ clock < frame.eff.n
    /\ clock' = frame.eff.n
    /\ UNCHANGED <<_package_cache, fsKind, fsScripts, self, initResult, pc, frame, child, spawned,
                   result, last>>

\* What subprocess.run may return when the child exits (each document on
\* stdout, nothing on stderr, either exit code), each with what
\* _parse_response makes of it.
Exits ==
    { [completed |-> completed, outcome |-> ParseResponse(completed)] :
        completed \in { CompletedProcess(StdoutText(out), <<>>, returncode) :
                           out \in Stdouts, returncode \in {0, 1} } }

\* The child exits before the deadline: subprocess.run returns whatever the
\* exit code (check=False) and call goes on to _parse_response.
ChildExit(exit) ==
    /\ pc = "running"
    /\ clock < frame.eff.n
    /\ result' = exit.outcome
    /\ last' = [last EXCEPT !.stage = "parse"]
    /\ child' = "exited"
    /\ pc' = "idle"
    /\ frame' = NoFrame
    /\ clock' = 0
    /\ UNCHANGED <<_package_cache, fsKind, fsScripts, self, initResult, spawned>>

\* Mutant of TimeoutExpired: the child is left running when the wait is
\* given up.
TimeoutExpired_NoKill ==
    /\ pc = "running"
    /\ clock >= frame.eff.n
    /\ result' = OnTimeoutExpired(frame.eff)
    /\ pc' = "idle"
    /\ frame' = NoFrame
    /\ clock' = 0
    /\ UNCHANGED <<_package_cache, fsKind, fsScripts, self, initResult, child, spawned, last>>

\* Mutant of TimeoutExpired: the script is run once more before the error
\* is raised.
TimeoutExpired_Retries ==
    /\ pc = "running"
    /\ clock >= frame.eff.n
    /\ result' = OnTimeoutExpired(frame.eff)
    /\ child' = "killed"
    /\ spawned' = spawned + 1
    /\ pc' = "idle"
    /\ frame' = NoFrame
    /\ clock' = 0
    /\ UNCHANGED <<_package_cache, fsKind, fsScripts, self, initResult, last>>

\* The deadline passes with the child still running: subprocess.run kills the
\* child and raises TimeoutExpired, which _execute_script converts.
TimeoutExpired ==
    /\ pc = "running"
    /\ clock >= frame.eff.n
    /\ result' = OnTimeoutExpired(frame.eff)
    /\ child' = "killed"
    /\ pc' = "idle"
    /\ frame' = NoFrame
    /\ clock' = 0
    /\ UNCHANGED <<_package_cache, fsKind, fsScripts, self, initResult, spawned, last>>

Next ==
    \/ \E t \in CtorTimeouts : Construct(t)
    \/ Mkdir
    \/ \E m \in Modules : AddScript(m)
    \/ \E m \in Modules : RemoveScript(m)
    \/ \E m \in Modules, a \in Actions, pin \in ParamsInputs,
          t \in {PyNone} \cup { PyInt(n) : n \in 0..MaxTimeout } :
         Call(m, a, pin, t)
    \/ Elapse
    \/ \E exit \in Exits : ChildExit(exit)
    \/ TimeoutExpired

Spec == Init /\ [][Next]_vars

\* subprocess.run's timeout always ends the wait once the deadline has passed.
FairSpec == Spec /\ WF_vars(TimeoutExpired)

\* ------------------------------------------- command construction, alone

\* _build_command applied to each params mapping of AllParams.
\* The entries of a params mapping under other keys: none, or those
\* install_fonts passes.
OtherEntries ==
    { <<>>,
      <<Entry(PyStr(font \o <<"_", "t", "y", "p", "e">>), Other(PyStr(nope))),
        Entry(PyStr(font \o <<"s">>), ListOf(<<Other(PyStr(vim))>>))>> }

InitCmd ==
    /\ fsKind = "dir"
    /\ fsScripts = Modules
    /\ self = [alive |-> TRUE, backend_dir |-> BackendPath,
               timeout |-> PyInt(DefaultTimeout), shell |-> zsh]
    /\ initResult = [NoResult EXCEPT !.kind = "constructed"]
    /\ pc = "build"
    /\ frame \in { [NoFrame EXCEPT !.module = package, !.action = install,
                                    !.params = [p EXCEPT !.others = others]] :
                     p \in AllParams, others \in OtherEntries }
    /\ clock = 0
    /\ child = "none"
    /\ spawned = 0
    /\ result = NoResult
    /\ last = NoCall
    /\ _package_cache = NoCache

BuildStep ==
    /\ pc = "build"
    /\ LET built == BuildCommand(self.shell, ScriptPath(self.backend_dir, frame.module),
                                 frame.action, frame.params)
       IN  /\ frame' = [frame EXCEPT !.cmd = built.cmd]
           /\ result' = IF built.exc = "" THEN NoResult ELSE Escapes(built.exc)
    /\ pc' = "built"
    /\ UNCHANGED <<_package_cache, fsKind, fsScripts, self, initResult, clock, child, spawned, last>>

\* _build_command once more, for a mapping that differs under the other
\* keys only; last.earlier keeps the first outcome, the vector under detail.
Rebuild(others) ==
    /\ pc = "built"
    /\ last.earlier = NoResult
    /\ others # frame.params.others
    /\ last' = [last EXCEPT !.earlier = [result EXCEPT !.status = "built",
                                                       !.detail = ListOf(frame.cmd)]]
    /\ frame' = [frame EXCEPT !.params.others = others, !.cmd = <<>>]
    /\ result' = NoResult
    /\ pc' = "build"
    /\ UNCHANGED <<_package_cache, fsKind, fsScripts, self, initResult, clock, child, spawned>>

NextCmd ==
    \/ BuildStep
    \/ \E others \in OtherEntries : Rebuild(others)

SpecCmd == InitCmd /\ [][NextCmd]_vars

\* ------------------------------------------------- error classification, alone

\* The error mappings parse_backend_error is applied to: with or without a
\* code, a message, details and other keys.
ErrorMappings ==
    { [k |-> "dict", hasCode |-> hc, code |-> c, hasMessage |-> hm, message |-> m,
       details |-> d, more |-> more] :
        hc \in BOOLEAN, c \in CodeVals, hm \in BOOLEAN,
        m \in {PyStr(nope), PyStr(<<>>), PyNone},
        d \in DetailsVals \cup {DictOf(<<>>), Other(PyNone)}, more \in BOOLEAN }

InitErr ==
    /\ fsKind = "dir"
    /\ fsScripts = Modules
    /\ self = [alive |-> TRUE, backend_dir |-> BackendPath,
               timeout |-> PyInt(DefaultTimeout), shell |-> zsh]
    /\ initResult = [NoResult EXCEPT !.kind = "constructed"]
    /\ pc = "classify"
    /\ frame \in { [NoFrame EXCEPT !.error_data = e] :
                     e \in { x \in ErrorMappings :
                               /\ (~x.hasCode => x.code = CodeNull)
                               /\ (~x.hasMessage => x.message = PyNone) } }
    /\ clock = 0
    /\ child = "none"
    /\ spawned = 0
    /\ result = NoResult
    /\ last = NoCall
    /\ _package_cache = NoCache

\* parse_backend_error(error_data)
ClassifyStep ==
    /\ pc = "classify"
    /\ result' = ParseBackendError(frame.error_data)
    /\ pc' = "classified"
    /\ UNCHANGED <<_package_cache, fsKind, fsScripts, self, initResult, frame, clock, child, spawned,
                   last>>

NextErr == ClassifyStep

SpecErr == InitErr /\ [][NextErr]_vars

\* ---------------------------------------------- the child's output, alone
\* _parse_response on what subprocess.run returned, the text of stdout and
\* stderr character by character; then the same output once more under the
\* other exit code.

Repeated(c, n) == [i \in 1..n |-> c]

Document(status, error, data, message, timestamp, metadata) ==
    [shape |-> "object", status |-> status, error |-> error,
     fields |-> [data |-> data, message |-> message, timestamp |-> timestamp,
                 metadata |-> metadata]]

\* Documents that satisfy the Response schema.
ValidDocuments ==
    { Document("success", NoError, Absent, Absent, Absent, Absent),
      Document("success", NoError, FullDetails, Other(PyStr(nope)),
               Other(PyStr(nope)), DictOf(<<>>)),
      Document("info", NoError, Other(PyNone), Other(PyNone), Other(PyNone), Absent),
      Document("warning", EmptyError, Absent, Absent, Absent, Absent),
      Document("error", NoError, Absent, Absent, Absent, Absent),
      Document("error", MessageOnlyError, Absent, Absent, Absent, Absent),
      Document("error", [MessageOnlyError EXCEPT !.hasCode = TRUE,
                                                 !.code = Code("TIMEOUT")],
               Absent, Absent, Absent, Absent) }

\* Documents that decode and do not satisfy it.
InvalidDocuments ==
    { Document("bogus", NoError, Absent, Absent, Absent, Absent),
      Document("absent", NoError, FullDetails, Absent, Absent, Absent),
      Document("success", NonDictError, Absent, Absent, Absent, Absent),
      Document("success", NoError, ListOf(<<>>), Absent, Absent, Absent),
      Document("success", NoError, Absent, Other(PyInt(5)), Absent, Absent),
      Document("success", NoError, Absent, Absent, Other(PyBool(TRUE)), Absent),
      Document("success", NoError, Absent, Absent, Absent, Other(PyNone)) }

ValidTexts == { StdoutText(out) : out \in ValidDocuments }

\* Log lines, as a script may print them around its document.
LogLine == <<"w", "a", "r", "n", "i", "n", "g", ":", " ", "x", "\n">>

\* What subprocess.run returned: stdout a document or other text, with or
\* without text before and after it; stderr; the exit code.
ParsedCompletions ==
    LET bodies ==
            ValidTexts
                \cup { StdoutText(out) : out \in InvalidDocuments }
                \cup { SubSeq(text, 1, Len(text) - 1) : text \in ValidTexts }
                \cup { <<>>, <<"o", "o", "p", "s">>, <<"[", "1", "]">>, <<"5">>,
                       Repeated("x", PreviewLen), Repeated("x", PreviewLen + 1),
                       <<"[", "1", "]">> \o Repeated(" ", PreviewLen) \o <<"x">> }
        leads == { <<>>, <<" ", "\n">>, LogLine, <<"3", " ">> }
        trails == { <<>>, <<"\n">>, <<"\n">> \o LogLine, <<"}">>,
                    StdoutText(Document("error", MessageOnlyError, Absent, Absent,
                                        Absent, Absent)),
                    Repeated("x", PreviewLen + 1) }
        stderrs == { <<>>, <<"e", "r", "r", "\n">>, Repeated("e", PreviewLen + 1) }
    IN  { CompletedProcess(lead \o body \o trail, stderr, returncode) :
            lead \in leads, body \in bodies, trail \in trails,
            stderr \in stderrs, returncode \in {0, 1} }

InitParse ==
    /\ fsKind = "dir"
    /\ fsScripts = Modules
    /\ self = [alive |-> TRUE, backend_dir |-> BackendPath,
               timeout |-> PyInt(DefaultTimeout), shell |-> zsh]
    /\ initResult = [NoResult EXCEPT !.kind = "constructed"]
    /\ pc = "parse"
    /\ frame \in { [NoFrame EXCEPT !.completed = completed] :
                     completed \in ParsedCompletions }
    /\ clock = 0
    /\ child = "exited"
    /\ spawned = 1
    /\ result = NoResult
    /\ last = NoCall
    /\ _package_cache = NoCache

\* subprocess.run has returned frame.completed, whatever the exit code
\* (check=False), and call returns what _parse_response makes of it.
ParseStep ==
    /\ pc = "parse"
    /\ result' = ParseResponse(frame.completed)
    /\ pc' = "parsed"
    /\ UNCHANGED <<_package_cache, fsKind, fsScripts, self, initResult, frame, clock, child, spawned,
                   last>>

\* The child is run again and writes the same output, with another exit
\* code; last.earlier keeps the first outcome.
Rerun(returncode) ==
    /\ pc = "parsed"
    /\ last.earlier = NoResult
    /\ returncode # frame.completed.returncode
    /\ frame' = [frame EXCEPT !.completed.returncode = returncode]
    /\ last' = [last EXCEPT !.earlier = result]
    /\ result' = NoResult
    /\ pc' = "parse"
    /\ spawned' = spawned + 1
    /\ UNCHANGED <<_package_cache, fsKind, fsScripts, self, initResult, clock, child>>

NextParse ==
    \/ ParseStep
    \/ \E returncode \in {0, 1} : Rerun(returncode)

SpecParse == InitParse /\ [][NextParse]_vars
\* ----------------------------------------------------------------- protocol
\* bridge/protocol.py: a Request or a Response is built from keyword
\* arguments (frame.kwargs, by frame.how), written as JSON and read back.

\* ActionType: three of its values, those the inputs below use.
ActionType ==
    { install, <<"s", "e", "a", "r", "c", "h">>, <<"u", "p", "d", "a", "t", "e">> }

\* Request(**kw): action is required and a value of ActionType; params and
\* metadata default to {} and are mappings, or pydantic raises.
Request(kw) ==
    LET action == DetailGet(kw, "action", Absent)
        params == DetailGet(kw, "params", DictOf(<<>>))
        metadata == DetailGet(kw, "metadata", DictOf(<<>>))
    IN  IF /\ action.k = "other"
           /\ action.v.t = "str"
           /\ action.v.s \in ActionType
           /\ params.k = "dict"
           /\ metadata.k = "dict"
        THEN [Returns("", "absent") EXCEPT
                 !.response = [NoResponse EXCEPT !.action = action,
                                                 !.params = params,
                                                 !.metadata = metadata]]
        ELSE Escapes("pydantic.ValidationError")

\* Protocol.create_request(action, params, **metadata): ActionType(action)
\* raises ValueError for a name that is no value of it; params or {}.
create_request(action, params, metadata) ==
    IF action.v.s \notin ActionType
    THEN Escapes("ValueError")
    ELSE Request(DictOf(<< Entry(Key("action"), action),
                           Entry(Key("params"),
                                 IF Nonempty(params) THEN params ELSE DictOf(<<>>)),
                           Entry(Key("metadata"), metadata) >>))

\* Response(**kw): the fields validated, the defaults filled in and the
\* timestamp validator run on a timestamp that was passed.
Response(kw) ==
    LET out == Seen([ok |-> TRUE, value |-> kw])
    IN  IF SchemaOk(out)
        THEN [Returns(out.status,
                      IF out.error.k = "absent" THEN "absent"
                      ELSE IF ErrorTruthy(out.error) THEN "dict" ELSE "empty")
                  EXCEPT !.response = ResponseOf(kw)]
        ELSE Escapes("pydantic.ValidationError")

\* Mutant of to_json: fields that are None are written as null.
to_json_KeepsNone(r) ==
    LET f == r.response
        present(v) == v # Absent
    IN  Encode(DictOf(
            Member("status", r.status # "", Other(PyStr(Spelling(r.status))))
                \o Member("action", present(f.action), f.action)
                \o Member("params", present(f.params), f.params)
                \o Member("data", present(f.data), f.data)
                \o Member("error", present(f.error), f.error)
                \o Member("message", present(f.message), f.message)
                \o Member("timestamp", present(f.timestamp), f.timestamp)
                \o Member("metadata", present(f.metadata), f.metadata)))

\* Request.to_json and Response.to_json: model_dump_json(exclude_none=True),
\* the fields in declaration order, those that are None left out. (A None
\* inside a mapping is a value of the mapping and is written as null.)
to_json(r) ==
    LET f == r.response
        present(v) == v # Absent /\ v # Other(PyNone)
    IN  Encode(DictOf(
            Member("status", r.status # "", Other(PyStr(Spelling(r.status))))
                \o Member("action", present(f.action), f.action)
                \o Member("params", present(f.params), f.params)
                \o Member("data", present(f.data), f.data)
                \o Member("error", present(f.error), f.error)
                \o Member("message", present(f.message), f.message)
                \o Member("timestamp", present(f.timestamp), f.timestamp)
                \o Member("metadata", present(f.metadata), f.metadata)))

\* Response.from_json and Request.from_json: model_validate_json, which
\* takes one JSON object and nothing after it.
from_json(json_str, response) ==
    LET text == Strip(json_str)
        d == RawDecode(text)
    IN  IF ~d.ok \/ SkipWs(text, d.end) <= Len(text) \/ d.value.k # "dict"
        THEN Escapes("pydantic.ValidationError")
        ELSE IF response THEN Response(d.value) ELSE Request(d.value)

\* The calls made: how, and the keyword arguments (for create_request the
\* arguments by name; params left out is its default None).
ProtoInputs ==
    LET opt(name, v) == Member(name, v # Absent, v)
        text == <<"a", "\"", "\\", "\n", "b">>
        nested == DictOf(<< Entry(Key("package"), Other(PyNone)),
                            Entry(Key("code"),
                                  ListOf(<< Other(PyInt(3)), Other(PyBool(TRUE)),
                                            Other(PyStr(text)) >>)) >>)
        mappings == { DictOf(<<>>), nested }
    IN  { [NoFrame EXCEPT
              !.how = "Response",
              !.kwargs = DictOf(opt("status", st) \o opt("data", d)
                                    \o opt("error", e) \o opt("message", m)
                                    \o opt("timestamp", t) \o opt("metadata", md))] :
            st \in { Absent, Other(PyStr(Spelling("success"))),
                     Other(PyStr(Spelling("error"))), Other(PyStr(nope)) },
            d \in mappings \cup { Absent, Other(PyNone), ListOf(<<>>) },
            e \in { Absent, DictOf(<<Entry(Key("message"), Other(PyStr(nope)))>>) },
            m \in { Absent, Other(PyNone), Other(PyStr(text)) },
            t \in { Absent, Other(PyNone), Other(PyStr(nope)) },
            md \in { Absent, nested } }
        \cup
        { [NoFrame EXCEPT
              !.how = how,
              !.kwargs = DictOf(opt("action", a) \o opt("params", p)
                                    \o opt("metadata", md))] :
            how \in {"Request", "create_request"},
            a \in { Other(PyStr(install)), Other(PyStr(nope)) },
            p \in mappings \cup { Absent, Other(PyNone), ListOf(<<>>),
                                  ListOf(<<Other(PyStr(vim))>>), Other(PyInt(0)),
                                  Other(PyInt(5)), Other(PyStr(<<>>)),
                                  Other(PyStr(vim)) },
            md \in { Absent, nested } }

InitProto ==
    /\ fsKind = "dir"
    /\ fsScripts = Modules
    /\ self = NoCaller
    /\ initResult = NoResult
    /\ pc = "construct"
    /\ frame \in ProtoInputs
    /\ clock = 0
    /\ child = "none"
    /\ spawned = 0
    /\ result = NoResult
    /\ last = NoCall
    /\ _package_cache = NoCache

\* The constructor or the factory is called with frame.kwargs.
ConstructStep ==
    /\ pc = "construct"
    /\ result' =
           CASE frame.how = "Response" -> Response(frame.kwargs)
             [] frame.how = "Request" -> Request(frame.kwargs)
             [] OTHER ->
                  create_request(DetailGet(frame.kwargs, "action", Absent),
                                 DetailGet(frame.kwargs, "params", Other(PyNone)),
                                 DetailGet(frame.kwargs, "metadata", DictOf(<<>>)))
    /\ pc' = "constructed"
    /\ UNCHANGED <<_package_cache, fsKind, fsScripts, self, initResult, frame, clock, child, spawned,
                   last>>

\* Protocol.encode of the message built; last.earlier keeps the message.
EncodeStep ==
    /\ pc = "constructed"
    /\ result.kind = "return"
    /\ frame' = [frame EXCEPT !.json_str = to_json(result)]
    /\ last' = [last EXCEPT !.earlier = result]
    /\ result' = NoResult
    /\ pc' = "encoded"
    /\ UNCHANGED <<_package_cache, fsKind, fsScripts, self, initResult, clock, child, spawned>>

\* Protocol.decode of that text, as the type of message it was made from.
DecodeStep ==
    /\ pc = "encoded"
    /\ result' = from_json(frame.json_str, frame.how = "Response")
    /\ pc' = "decoded"
    /\ UNCHANGED <<_package_cache, fsKind, fsScripts, self, initResult, frame, clock, child, spawned,
                   last>>

NextProto ==
    \/ ConstructStep
    \/ EncodeStep
    \/ DecodeStep

SpecProto == InitProto /\ [][NextProto]_vars
\* --------------------------------------------------------------- above call
\* BackendCaller's convenience methods, pkgman's cache of package names and
\* its menu, and the per-package loops of ui/components.py. A call of the
\* backend is taken by its outcome here: what call returned or raised.

BackendOutcomes ==
    LET names(v) == DictOf(<<Entry(Key("packages"), v)>>)
        answer(status, data) ==
            ParseResponse(CompletedProcess(
                StdoutText(Document(status, NoError, data, Absent, Absent, Absent)),
                <<>>, 0))
    IN  { answer("success", names(ListOf(<<Other(PyStr(vim)), Other(PyStr(zsh))>>))),
          answer("success", names(Other(PyNone))),
          answer("success", DictOf(<<Entry(Key("count"), Other(PyInt(2)))>>)),
          answer("success", DictOf(<<>>)),
          answer("warning", names(ListOf(<<Other(PyStr(vim))>>))),
          BackendTimeoutError(PyStr(nope), PyInt(DefaultTimeout)) }

\* Mutant of ConvenienceCall: list_installed does not look at explicit_only.
ConvenienceCall_IgnoresExplicit(method, explicit_only) ==
    CASE method = "install_packages" -> <<"package", "install">>
      [] method = "remove_packages" -> <<"package", "remove">>
      [] method = "list_available_packages" -> <<"package", "list_available">>
      [] method = "list_installed_names" -> <<"package", "list_installed_names">>
      [] method = "search_packages" -> <<"package", "search">>
      [] method = "get_package_info" -> <<"package", "info">>
      [] method = "list_installed" -> <<"package", "list_installed">>
      [] method = "update_system" -> <<"package", "update">>
      [] method = "clean_cache" -> <<"system", "clean_cache">>
      [] method = "remove_orphans" -> <<"system", "remove_orphans">>
      [] method = "check_broken" -> <<"system", "check_broken">>
      [] method = "install_fonts" -> <<"font", "install">>
      [] method = "list_fonts" -> <<"font", "list">>
      [] method = "search_fonts" -> <<"font", "search">>
      [] method = "update_font_cache" -> <<"font", "update_cache">>

\* The module and the action a convenience method of BackendCaller passes
\* to call.
ConvenienceCall(method, explicit_only) ==
    CASE method = "install_packages" -> <<"package", "install">>
      [] method = "remove_packages" -> <<"package", "remove">>
      [] method = "list_available_packages" -> <<"package", "list_available">>
      [] method = "list_installed_names" -> <<"package", "list_installed_names">>
      [] method = "search_packages" -> <<"package", "search">>
      [] method = "get_package_info" -> <<"package", "info">>
      [] method = "list_installed" ->
           <<"package", IF explicit_only THEN "list_explicit" ELSE "list_installed">>
      [] method = "update_system" -> <<"package", "update">>
      [] method = "clean_cache" -> <<"system", "clean_cache">>
      [] method = "remove_orphans" -> <<"system", "remove_orphans">>
      [] method = "check_broken" -> <<"system", "check_broken">>
      [] method = "install_fonts" -> <<"font", "install">>
      [] method = "list_fonts" -> <<"font", "list">>
      [] method = "search_fonts" -> <<"font", "search">>
      [] method = "update_font_cache" -> <<"font", "update_cache">>

\* Mutant of GetPackages: a lookup that fails leaves the entry unset.
GetPackages_NoMemo(cache, key, force_refresh, out) ==
    LET data == out.response.data
        lookup == cache[key] = Other(PyNone) \/ force_refresh
        entry == IF ~lookup THEN cache[key]
                 ELSE IF out.kind = "return" /\ out.status = "success" /\ Nonempty(data)
                 THEN DetailGet(data, "packages", ListOf(<<>>))
                 ELSE Other(PyNone)
    IN  [cache |-> [cache EXCEPT ![key] = entry],
         calls |-> IF lookup
                   THEN <<ConvenienceCall(IF key = "available"
                                          THEN "list_available_packages"
                                          ELSE "list_installed_names", FALSE)>>
                   ELSE <<>>]

\* get_available_packages (key "available") and get_installed_packages
\* (key "installed") on a cache, out being what the backend method does if
\* it is called: the cache afterwards and the backend calls made. The
\* value returned is the entry afterwards.
GetPackages(cache, key, force_refresh, out) ==
    LET data == out.response.data
        lookup == cache[key] = Other(PyNone) \/ force_refresh
        entry == IF ~lookup THEN cache[key]
                 ELSE IF out.kind = "return" /\ out.status = "success" /\ Nonempty(data)
                 THEN DetailGet(data, "packages", ListOf(<<>>))
                 ELSE ListOf(<<>>)
    IN  [cache |-> [cache EXCEPT ![key] = entry],
         calls |-> IF lookup
                   THEN <<ConvenienceCall(IF key = "available"
                                          THEN "list_available_packages"
                                          ELSE "list_installed_names", FALSE)>>
                   ELSE <<>>]

\* console.print(text) raises MarkupError: the text has a closing tag, which
\* matches no tag open where it stands in the messages printed below.
ClosesTag(text) ==
    \E i \in 1..Len(text), j \in 1..Len(text) :
        /\ i + 1 < j
        /\ text[i] = "["
        /\ text[i + 1] = "/"
        /\ text[j] = "]"
        /\ \A k \in (i + 1)..(j - 1) : text[k] # "["
        /\ i = 1 \/ text[i - 1] # "\\"

\* The loop of install_packages_with_progress and
\* remove_packages_with_progress (kind) from the package at idx on. outs[idx]
\* is what happens for that package: out, the outcome of the backend call,
\* and returncode, that of pacman -Q (-1: subprocess.run raises). acc holds
\* success, failed, the packages the backend was called for (calls) and
\* whether an exception has left the loop (raised).
RECURSIVE ProgressLoop(_, _, _, _, _)
ProgressLoop(kind, packages, outs, idx, acc) ==
    IF idx > Len(packages) THEN acc
    ELSE
      LET pkg == packages[idx]
          o == outs[idx]
          called == [acc EXCEPT !.calls = Append(@, pkg)]
          answered == o.out.kind = "return"
          checked == answered /\ o.out.status = "success"
          verified == IF kind = "install" THEN o.returncode = 0
                      ELSE o.returncode # 0
          \* the try block up to its console.print
          tried == IF ~answered \/ (checked /\ o.returncode = -1) THEN called
                   ELSE IF checked /\ verified
                   THEN [called EXCEPT !.success = Append(@, pkg)]
                   ELSE [called EXCEPT !.failed = Append(@, pkg)]
          excepts == ~answered \/ (checked /\ o.returncode = -1) \/ ClosesTag(pkg)
          handled == [tried EXCEPT !.failed = Append(@, pkg)]
      IN  IF ~excepts THEN ProgressLoop(kind, packages, outs, idx + 1, tried)
          ELSE IF ClosesTag(pkg) THEN [handled EXCEPT !.raised = TRUE]
          ELSE ProgressLoop(kind, packages, outs, idx + 1, handled)

\* pkgman's install and remove commands (kind) as the menu calls them, with
\* no_confirm=False: how the command ends (cancelled, done, exit: typer.Exit
\* raised, error: another exception) and the backend calls it made.
PackagesCommand(kind, packages, confirmed, out, returncode) ==
    LET loop == ProgressLoop(kind, packages,
                             [i \in 1..Len(packages) |->
                                 [out |-> out, returncode |-> returncode]],
                             1, [success |-> <<>>, failed |-> <<>>, calls |-> <<>>,
                                 raised |-> FALSE])
    IN  IF ~confirmed THEN [how |-> "cancelled", calls |-> <<>>]
        ELSE IF Len(packages) > 1
        THEN [how |-> IF loop.raised THEN "error" ELSE "done", calls |-> loop.calls]
        ELSE [how |-> IF out.kind = "raise" THEN "exit" ELSE "done",
              calls |-> <<packages[1]>>]

\* A convenience method is called: it calls call once and returns what call
\* returns; last.earlier keeps what call did.
ConvenienceMethod(method, explicit_only, out) ==
    /\ pc = "idle"
    /\ pc' = "done"
    /\ result' = out
    /\ last' = [NoCall EXCEPT !.called = TRUE, !.op = method,
                              !.args = <<explicit_only>>,
                              !.calls = <<ConvenienceCall(method, explicit_only)>>,
                              !.before = _package_cache, !.earlier = out]
    /\ UNCHANGED <<_package_cache, fsKind, fsScripts, self, initResult, frame, clock,
                   child, spawned>>

\* install_packages_with_progress or remove_packages_with_progress (kind)
\* is called: frame.success and frame.failed are what it returns, unless an
\* exception leaves it.
with_progress(kind, packages, outs) ==
    /\ pc = "idle"
    /\ pc' = "done"
    /\ LET loop == ProgressLoop(kind, packages, outs, 1,
                                [success |-> <<>>, failed |-> <<>>, calls |-> <<>>,
                                 raised |-> FALSE])
       IN  /\ frame' = [NoFrame EXCEPT !.how = kind, !.packages = packages,
                                       !.outs = outs, !.success = loop.success,
                                       !.failed = loop.failed]
           /\ result' = IF loop.raised THEN Escapes("MarkupError")
                        ELSE [NoResult EXCEPT !.kind = "return"]
           /\ last' = [NoCall EXCEPT !.called = TRUE, !.op = "with_progress",
                                     !.calls = loop.calls]
    /\ UNCHANGED <<_package_cache, fsKind, fsScripts, self, initResult, clock, child,
                   spawned>>

\* get_available_packages or get_installed_packages is called.
get_packages(key, force_refresh, out) ==
    /\ pc = "idle"
    /\ LET g == GetPackages(_package_cache, key, force_refresh, out)
       IN  /\ _package_cache' = g.cache
           /\ result' = [NoResult EXCEPT !.kind = "return", !.detail = g.cache[key]]
           /\ last' = [NoCall EXCEPT !.called = TRUE, !.op = "get_packages",
                                     !.args = <<key, force_refresh>>,
                                     !.calls = g.calls,
                                     !.before = _package_cache,
                                     !.earlier = IF g.calls = <<>> THEN NoResult
                                                 ELSE out]
    /\ UNCHANGED <<fsKind, fsScripts, self, initResult, pc, frame, clock, child,
                   spawned>>

\* One round of run_interactive_menu for a choice that changes the system: 1
\* install, 2 remove, 4 update system, 8 remove orphans. packages is what
\* the prompts of choices 1 and 2 leave to work on, confirmed the answer to
\* the confirmation, first the outcome of the backend calls made before
\* the operation (the lookups, check_updates), out that of the operation's
\* own calls and returncode that of pacman -Q. result.status tells how the
\* round went: skipped, uptodate, cancelled, done or caught (an exception
\* reached the handler of the menu).
run_interactive_menu(choice, packages, confirmed, first, out, returncode) ==
    /\ pc = "idle"
    /\ LET a == GetPackages(_package_cache, "available", FALSE, first)
           i == GetPackages(IF choice = "1" THEN a.cache ELSE _package_cache,
                            "installed", FALSE, first)
           c == PackagesCommand(IF choice = "1" THEN "install" ELSE "remove",
                                packages, confirmed, out, returncode)
           data == first.response.data
           round ==
               CASE choice \in {"1", "2"} /\ packages = <<>> ->
                      [how |-> "skipped", calls |-> <<>>, cache |-> i.cache]
                 [] choice \in {"1", "2"} /\ c.how \in {"cancelled", "done"} ->
                      [how |-> c.how, calls |-> c.calls,
                       cache |-> [i.cache EXCEPT !.installed = Other(PyNone)]]
                 [] choice \in {"1", "2"} ->
                      [how |-> "caught", calls |-> c.calls, cache |-> i.cache]
                 [] choice = "4" /\ first.kind = "raise" ->
                      [how |-> "caught", calls |-> <<>>, cache |-> _package_cache]
                 [] /\ choice = "4"
                    /\ \/ first.status # "success"
                       \/ ~Nonempty(data)
                       \/ DetailGet(data, "count", Other(PyInt(0))) = Other(PyInt(0)) ->
                      [how |-> "uptodate", calls |-> <<>>, cache |-> _package_cache]
                 [] choice = "4" /\ ~confirmed ->
                      [how |-> "cancelled", calls |-> <<>>, cache |-> _package_cache]
                 [] OTHER ->
                      [how |-> IF out.kind = "raise" THEN "caught" ELSE "done",
                       calls |-> <<ConvenienceCall(IF choice = "4" THEN "update_system"
                                                   ELSE "remove_orphans", FALSE)>>,
                       cache |-> _package_cache]
       IN  /\ _package_cache' = round.cache
           /\ result' = [NoResult EXCEPT !.kind = "return", !.status = round.how]
           /\ last' = [NoCall EXCEPT !.called = TRUE, !.op = "run_interactive_menu",
                                     !.args = <<choice, packages, confirmed>>,
                                     !.calls = round.calls,
                                     !.before = _package_cache, !.earlier = out]
    /\ UNCHANGED <<fsKind, fsScripts, self, initResult, pc, frame, clock, child,
                   spawned>>

\* pkgman has imported the backend; nothing is cached yet.
InitApp ==
    /\ fsKind = "dir"
    /\ fsScripts = Modules
    /\ self = [alive |-> TRUE, backend_dir |-> BackendPath,
               timeout |-> PyInt(DefaultTimeout), shell |-> zsh]
    /\ initResult = [NoResult EXCEPT !.kind = "constructed"]
    /\ pc = "idle"
    /\ frame = NoFrame
    /\ clock = 0
    /\ child = "none"
    /\ spawned = 0
    /\ result = NoResult
    /\ last = NoCall
    /\ _package_cache = NoCache

\* One use of the backend: a convenience method, or a loop over packages
\* whose names may hold markup.
NextUse ==
    \/ \E method \in { "install_packages", "remove_packages", "search_packages",
                        "get_package_info", "list_installed", "update_system",
                        "clean_cache", "remove_orphans", "check_broken",
                        "install_fonts", "list_fonts", "search_fonts",
                        "update_font_cache", "list_available_packages",
                        "list_installed_names" },
          explicit_only \in BOOLEAN, out \in BackendOutcomes :
            ConvenienceMethod(method, explicit_only, out)
    \/ \E kind \in {"install", "remove"},
          packages \in SeqsUpTo({vim, zsh, <<"[", "/", "x", "]">>}, MaxPackages) :
          \E outs \in [1..Len(packages) ->
                          [out : { o \in BackendOutcomes :
                                     o.status # "success" \/ ~Nonempty(o.response.data) },
                           returncode : {-1, 0, 1}]] :
            with_progress(kind, packages, outs)

SpecUse == InitApp /\ [][NextUse]_vars

NextApp ==
    \/ \E key \in {"available", "installed"}, force_refresh \in BOOLEAN,
          out \in BackendOutcomes :
            get_packages(key, force_refresh, out)
    \/ \E choice \in {"1", "2", "4", "8"},
          packages \in { <<>>, <<vim>>, <<<<"[", "/", "x", "]">>, vim>> },
          confirmed \in BOOLEAN, first \in BackendOutcomes,
          out \in { o \in BackendOutcomes :
                      o.status # "success" \/ ~Nonempty(o.response.data) },
          returncode \in {0, 1} :
            run_interactive_menu(choice, packages, confirmed, first, out, returncode)

SpecApp == InitApp /\ [][NextApp]_vars

\* ------------------------------------------------------------------ claims

\* C1: call never returns a Response whose status is error; whatever it
\* returns has status success, warning or info.
C1_NeverReturnsError ==
    result.kind = "return" => result.status \in {"success", "warning", "info"}

\* C2: whatever call raises is a BackendError or one of its subclasses; no
\* other kind of exception escapes.
C2_OnlyBridgeErrors ==
    result.kind = "raise" => result.exc \in BridgeErrors

\* The names C3 says are rejected: empty, starting with a hyphen, or holding
\* a shell metacharacter or whitespace.
\* (The backquote is left out: no name drawn here holds one.)
Metacharacters == {";", "|", "&", "$", "<", ">", " "}

BadPackageName(v) ==
    \/ v.t # "str"
    \/ v.s = <<>>
    \/ v.s[1] = "-"
    \/ \E i \in 1..Len(v.s) : v.s[i] \in Metacharacters

HasBadPackageName(params) ==
    \/ params.packages.k = "other" /\ BadPackageName(params.packages.v)
    \/ /\ params.packages.k = "list"
       /\ \E i \in 1..Len(params.packages.items) :
            BadPackageName(params.packages.items[i])

\* C3: a call whose packages entry holds a rejected name raises a
\* ValidationError before any child is spawned, so no child ever runs for it.
C3_BadNameNeverSpawns ==
    pc = "running" => ~HasBadPackageName(frame.params)

\* <backend_dir>/<module>.zsh, spelled out.
ExpectedScriptText(module) == BackendPath \o <<"/">> \o module \o <<".", "z", "s", "h">>

\* C4: a call on a module whose script file does not exist raises
\* BackendNotFoundError carrying that script path, with no child spawned.
C4_MissingScript ==
    (last.called /\ ~last.scriptPresent) =>
        /\ pc = "idle"
        /\ result = BackendNotFoundError(ExpectedScriptText(last.module))
        /\ spawned = 0
        /\ child # "running"

C4_Witness ==
    /\ last.called
    /\ ~last.scriptPresent
    /\ result.exc = "BackendNotFoundError"
    /\ fsScripts # {}

C6_Construction ==
    [][\A t \in CtorTimeouts :
         Construct(t) =>
            /\ fsKind = "missing" =>
                 initResult' = BackendNotFoundError(BackendPath) /\ ~self'.alive
            /\ fsKind = "file" =>
                 /\ initResult'.kind = "raise"
                 /\ initResult'.exc = "BackendError"
                 /\ ~self'.alive
            /\ fsKind = "dir" =>
                 /\ initResult'.kind = "constructed"
                 /\ self'.alive
                 /\ self'.backend_dir = BackendPath
                 /\ (t = NotGiven => self'.timeout = PyInt(300))
                 /\ (t # NotGiven => self'.timeout = t)]_vars

C6_Witness ==
    /\ fsKind = "file"
    /\ initResult.exc = "BackendError"
    /\ ~self.alive

\* How many vector elements C7 gives each positional field.
NPackages(p) ==
    CASE p.packages.k = "absent" -> 0
      [] p.packages.k = "list" -> Len(p.packages.items)
      [] OTHER -> 1

NQuery(p) == IF p.query.k = "absent" THEN 0 ELSE 1

NArgs(p) ==
    CASE p.args.k = "absent" -> 0
      [] p.args.k = "list" -> Len(p.args.items)
      [] OTHER -> 1

\* How many vector elements C8 gives one options entry.
Width(value) == IF value.t = "bool" THEN (IF value.b THEN 1 ELSE 0) ELSE 2

\* The elements contributed by the entries before the j-th.
RECURSIVE Offset(_, _)
Offset(entries, j) ==
    IF j <= 1 THEN 0 ELSE Offset(entries, j - 1) + Width(entries[j - 1].value)

\* elem is "--" followed by key with every underscore turned into a hyphen.
IsFlagOf(elem, key) ==
    /\ elem.t = "str"
    /\ Len(elem.s) = Len(key.s) + 2
    /\ elem.s[1] = "-"
    /\ elem.s[2] = "-"
    /\ \A i \in 1..Len(key.s) :
         elem.s[i + 2] = (IF key.s[i] = "_" THEN "-" ELSE key.s[i])

\* flags is what C8 says the entries contribute, entry by entry, in order.
FlagsAsClaimed(flags, entries) ==
    /\ Len(flags) = Offset(entries, Len(entries) + 1)
    /\ \A j \in 1..Len(entries) :
         LET o == Offset(entries, j)
             v == entries[j].value
         IN  /\ Width(v) >= 1 => IsFlagOf(flags[o + 1], entries[j].key)
             /\ Width(v) = 2 => flags[o + 2] = PyStr(ToText(v))

OptionEntries(p) == IF p.options.k = "dict" THEN p.options.items ELSE <<>>

C8_OptionFlags ==
    (pc = "built" /\ result.kind = "none" /\ frame.params.options.k = "dict") =>
        LET p == frame.params
            entries == p.options.items
            c == frame.cmd
            positional == 3 + NPackages(p) + NQuery(p) + NArgs(p)
        IN  /\ Len(c) = positional + Offset(entries, Len(entries) + 1)
            /\ FlagsAsClaimed(SubSeq(c, positional + 1, Len(c)), entries)

C8_Witness ==
    /\ pc = "built"
    /\ result.kind = "none"
    /\ frame.params.options.k = "dict"
    /\ Len(frame.params.options.items) = 2
    /\ frame.params.options.items[1] = Entry(PyStr(as_deps), PyBool(FALSE))
    /\ frame.params.options.items[2] = Entry(PyStr(no_confirm), PyInt(3))
    /\ Len(frame.cmd) = 5

\* C9: the child runs under the per-call timeout whenever one is given to
\* call, 0 included, and under the instance default only when none is given.
C9_EffectiveTimeout ==
    pc = "running" =>
        frame.eff = (IF frame.timeout # PyNone THEN frame.timeout ELSE self.timeout)

EffectiveTimeouts == {DefaultTimeout} \cup 0..MaxTimeout

\* C10: once the effective timeout has elapsed with the child still running,
\* call returns no Response and eventually raises BackendTimeoutError, code
\* TIMEOUT, carrying the timeout that was applied.
C10_TimeoutRaised ==
    /\ \A t \in EffectiveTimeouts :
         (pc = "running" /\ frame.eff = PyInt(t) /\ clock >= t)
            ~> (pc = "idle" /\ [result EXCEPT !.message = PyNone]
                                  = [NoResult EXCEPT !.kind = "raise",
                                                     !.exc = "BackendTimeoutError",
                                                     !.code = Code("TIMEOUT"),
                                                     !.timeout = PyInt(t)])
    /\ [][(pc = "running" /\ clock >= frame.eff.n) =>
             (pc' = "running" \/ result'.kind = "raise")]_vars

C10_Witness ==
    /\ result.exc = "BackendTimeoutError"
    /\ child = "killed"
    /\ result.timeout = PyInt(1)

\* C11: once call has raised the timeout error the child it spawned is no
\* longer running, and over any sequence of calls no child is running while
\* no call is in progress: a child never outlives the call that spawned it.
C11_NoOrphan ==
    /\ pc = "idle" => child # "running"
    /\ (pc = "idle" /\ last.stage = "execute" /\ result.exc = "BackendTimeoutError")
          => (child = "killed" /\ spawned = 1)
    /\ spawned <= 1

\* A call run under the instance default timed out and its child was killed.
C11_Witness ==
    /\ pc = "idle"
    /\ last.stage = "execute"
    /\ result.exc = "BackendTimeoutError"
    /\ result.timeout = PyInt(DefaultTimeout)
    /\ child = "killed"
    /\ spawned = 1

\* s occurs in text as a run of consecutive elements.
Includes(text, s) ==
    \E i \in 0..(Len(text) - Len(s)) : SubSeq(text, i + 1, i + Len(s)) = s

\* C12: when the child cannot be started, call raises the generic
\* BackendError with code EXECUTION_FAILED and a message that includes the
\* underlying error's text; no child runs and parsing is never reached.
C12_LaunchFailure ==
    (last.called /\ last.launch \in {"oserror", "typeerror"}) =>
        /\ pc = "idle"
        /\ result.kind = "raise"
        /\ result.exc = "BackendError"
        /\ result.code = Code("EXECUTION_FAILED")
        /\ result.message.t = "str"
        /\ Includes(result.message.s, ErrorText(last.launch))
        /\ last.stage = "execute"
        /\ spawned = 0
        /\ child # "running"

C12_Witness ==
    /\ last.called
    /\ last.launch = "oserror"
    /\ last.scriptPresent
    /\ result.exc = "BackendError"
    /\ result.code = Code("EXECUTION_FAILED")

\* C13: the child's exit code has no influence: the same stdout and stderr
\* under another exit code give the same outcome as before.
C13_ExitCodeIgnored ==
    (pc = "parsed" /\ last.earlier # NoResult) => result = last.earlier

C13_Witness ==
    /\ pc = "parsed"
    /\ last.earlier.kind = "return"
    /\ frame.completed.returncode # 0

StartsWith(text, prefix) ==
    Len(prefix) <= Len(text) /\ SubSeq(text, 1, Len(prefix)) = prefix

\* C14: when the stripped stdout begins with a JSON object that satisfies
\* the Response schema, the text after the object changes nothing: the
\* outcome is that of the object alone.
C14_TrailingIgnored ==
    pc = "parsed" =>
        \A text \in ValidTexts :
            StartsWith(Strip(frame.completed.stdout), text) =>
                result = ParseResponse([frame.completed EXCEPT !.stdout = text])

C14_Witness ==
    /\ pc = "parsed"
    /\ result.kind = "return"
    /\ \E text \in ValidTexts :
          /\ StartsWith(Strip(frame.completed.stdout), text)
          /\ Len(Strip(frame.completed.stdout)) > Len(text) + Len(LogLine)

\* C15: when stdout is a log line followed by a JSON object that satisfies
\* the Response schema, the object is found and the outcome is that of the
\* object alone.
C15_LeadingTextSkipped ==
    pc = "parsed" =>
        \A text \in ValidTexts :
            frame.completed.stdout = LogLine \o text =>
                result = ParseResponse([frame.completed EXCEPT !.stdout = text])

C17_NeverFullOutput ==
    (/\ pc = "parsed"
     /\ \A text \in ValidTexts : ~StartsWith(Strip(frame.completed.stdout), text)
     /\ result.exc = "InvalidResponseError")
        => LET stdout == Strip(frame.completed.stdout)
               raw == IF stdout # <<>> THEN stdout ELSE Strip(frame.completed.stderr)
               shown == IF Len(raw) > PreviewLen
                        THEN SubSeq(raw, 1, PreviewLen) \o <<"...">>
                        ELSE raw
           IN  /\ result.raw_output = PyStr(shown)
               /\ raw # <<>> =>
                      InvalidResponseStr(result) =
                          result.message.s \o <<"\nRaw output: ">> \o shown

\* The eight codes C18 names, each with the kind it says is raised.
KindOf ==
    [c \in { "TIMEOUT", "INVALID_RESPONSE", "SCRIPT_NOT_FOUND", "PERMISSION_DENIED",
             "PACKAGE_NOT_FOUND", "DEPENDENCY_CONFLICT", "VALIDATION_ERROR",
             "SYSTEM_ERROR" } |->
        CASE c = "TIMEOUT" -> "BackendTimeoutError"
          [] c = "INVALID_RESPONSE" -> "InvalidResponseError"
          [] c = "SCRIPT_NOT_FOUND" -> "BackendNotFoundError"
          [] c = "PERMISSION_DENIED" -> "PermissionError"
          [] c = "PACKAGE_NOT_FOUND" -> "PackageNotFoundError"
          [] c = "DEPENDENCY_CONFLICT" -> "DependencyError"
          [] c = "VALIDATION_ERROR" -> "ValidationError"
          [] OTHER -> "SystemError"]

RecognizedCode(e) ==
    e.hasCode /\ e.code.t = "str" /\ e.code.name \in DOMAIN KindOf

\* field holds what error.details has under name, when it has that key.
TakenFrom(field, e, name) ==
    e.details.k = "dict" =>
        \A i \in 1..Len(e.details.items) :
            e.details.items[i].key = Key(name) => field = e.details.items[i].value

\* C18: for an error mapping with a recognized code the kind raised is fixed
\* by the code alone, and the exception carries the code's detail as
\* error.details gives it: package, conflicting_packages, field, command, path.
C18_KindAndDetail ==
    (pc = "classified" /\ RecognizedCode(frame.error_data)) =>
        LET e == frame.error_data
            c == e.code.name
        IN  /\ result.kind = "raise"
            /\ result.exc = KindOf[c]
            /\ c = "PACKAGE_NOT_FOUND" => TakenFrom(result.detail, e, "package")
            /\ c = "DEPENDENCY_CONFLICT" =>
                 TakenFrom(result.detail, e, "conflicting_packages")
            /\ c = "VALIDATION_ERROR" => TakenFrom(result.detail, e, "field")
            /\ c = "SYSTEM_ERROR" => TakenFrom(result.detail, e, "command")
            /\ c = "SCRIPT_NOT_FOUND" => TakenFrom(result.script_path, e, "path")

\* C19: for a recognized code, the typed exception raised carries the
\* backend's own message: its message is error.message.
C19_CarriesMessage ==
    (/\ pc = "classified"
     /\ RecognizedCode(frame.error_data)
     /\ frame.error_data.hasMessage
     /\ result.exc \in BridgeErrors)
        => result.message = frame.error_data.message

\* C20: an error mapping whose code is none of the eight yields the generic
\* BackendError with the original code (UNKNOWN_ERROR when there is no code
\* key) and the original message.
C20_GenericFallback ==
    (pc = "classified" /\ ~RecognizedCode(frame.error_data)) =>
        LET e == frame.error_data
        IN  /\ result.kind = "raise"
            /\ result.exc = "BackendError"
            /\ result.code = (IF e.hasCode THEN e.code ELSE Code("UNKNOWN_ERROR"))
            /\ e.hasMessage => result.message = e.message

C26_OtherKeysIgnored ==
    (pc = "built" /\ last.earlier # NoResult) =>
        /\ ListOf(frame.cmd) = last.earlier.detail
        /\ result.exc = last.earlier.exc

C26_Witness ==
    /\ pc = "built"
    /\ last.earlier # NoResult
    /\ frame.params.others # <<>>
    /\ Len(frame.cmd) > 3

\* C21: decoding the encoding of a valid Request or Response, as the type it
\* has, gives the message back field by field, and an optional field that
\* was absent (None) is still absent.
C21_RoundTrip == pc = "decoded" => result = last.earlier

C21_Witness ==
    /\ pc = "decoded"
    /\ result.status = "success"
    /\ result.response.timestamp = Other(PyNone)
    /\ result.response.message = Other(PyNone)
    /\ result.response.error # Other(PyNone)
    /\ result.response.data.items # <<>>

\* C22: a Request built directly or by Protocol.create_request from params
\* that are no mapping (a scalar or a list, empty or not), or from an action
\* name outside the enumeration, is rejected.
C22_RequestRejected ==
    LET action == DetailGet(frame.kwargs, "action", Absent)
        params == DetailGet(frame.kwargs, "params", Absent)
    IN  ( /\ pc = "constructed"
          /\ frame.how \in {"Request", "create_request"}
          /\ \/ action.v.s \notin ActionType
             \/ params.k = "list"
             \/ params.k = "other" /\ params.v.t # "none" )
            => result.kind = "raise"

\* C23: every Response built has a timestamp: generated when none was
\* passed or None was, kept when one was passed.
C23_HasTimestamp ==
    LET timestamp == DetailGet(frame.kwargs, "timestamp", Other(PyNone))
    IN  (pc = "constructed" /\ frame.how = "Response" /\ result.kind = "return")
            => result.response.timestamp =
                  (IF timestamp = Other(PyNone) THEN Other(PyStr(<<"now">>))
                   ELSE timestamp)

\* C25: each convenience method calls call exactly once, with the module
\* and action fixed for it (list_installed: list_explicit when explicit_only
\* is set, else list_installed), and returns or raises what call does.
C25_ConvenienceCalls ==
    LET explicit_only == last.args = <<TRUE>>
        claimed ==
            [install_packages |-> <<"package", "install">>,
             remove_packages |-> <<"package", "remove">>,
             search_packages |-> <<"package", "search">>,
             get_package_info |-> <<"package", "info">>,
             list_installed |-> IF explicit_only THEN <<"package", "list_explicit">>
                                ELSE <<"package", "list_installed">>,
             update_system |-> <<"package", "update">>,
             clean_cache |-> <<"system", "clean_cache">>,
             remove_orphans |-> <<"system", "remove_orphans">>,
             check_broken |-> <<"system", "check_broken">>,
             list_fonts |-> <<"font", "list">>,
             search_fonts |-> <<"font", "search">>]
    IN  (pc = "done" /\ last.op \in DOMAIN claimed)
            => /\ last.calls = <<claimed[last.op]>>
               /\ result = last.earlier

C25_Witness ==
    /\ pc = "done"
    /\ last.op = "list_installed"
    /\ last.args = <<TRUE>>
    /\ last.calls = << <<"package", "list_explicit">> >>
    /\ result.exc = "BackendTimeoutError"

\* C27: after a round of the menu that installs, removes, updates the
\* system or removes orphans, whether the operation succeeded, failed or
\* was cancelled, the cached list of installed packages is unset.
C27_CacheCleared ==
    (last.op = "run_interactive_menu" /\ result.status \in {"done", "cancelled", "caught"})
        => _package_cache.installed = Other(PyNone)

\* C28: a getter of the cache looks the list up exactly when its entry is
\* unset or force_refresh is set, leaves the other entry alone, and leaves
\* its own entry a list.
C28_LookupIffUnset ==
    LET key == last.args[1]
        other == IF key = "available" THEN "installed" ELSE "available"
    IN  last.op = "get_packages"
            => /\ last.calls # <<>>
                     <=> (last.before[key] = Other(PyNone) \/ last.args[2])
               /\ _package_cache[other] = last.before[other]
               /\ _package_cache[key].k = "list"

\* C29: a lookup that fails (the backend raises, answers without success or
\* without data) leaves the entry the empty list, and a getter that finds
\* the empty list and is not forced returns it without a lookup.
C29_FailureMemoized ==
    LET key == last.args[1]
        out == last.earlier
        failed == /\ last.calls # <<>>
                  /\ \/ out.kind = "raise"
                     \/ out.status # "success"
                     \/ ~Nonempty(out.response.data)
    IN  last.op = "get_packages"
            => /\ failed => /\ _package_cache[key] = ListOf(<<>>)
                            /\ result.detail = ListOf(<<>>)
               /\ (~last.args[2] /\ last.before[key] = ListOf(<<>>))
                     => /\ last.calls = <<>>
                        /\ result.detail = ListOf(<<>>)
                        /\ _package_cache[key] = ListOf(<<>>)

C29_Witness ==
    /\ last.op = "get_packages"
    /\ last.args = <<"installed", FALSE>>
    /\ last.before.installed = ListOf(<<>>)
    /\ last.calls = <<>>
    /\ result.detail = ListOf(<<>>)

\* C30: the loops call the backend once for every package, in order,
\* whatever happens to the packages before it, and return two lists that
\* split the input in its order.
C30_EveryPackageOnce ==
    LET packages == frame.packages
        sub(I) == [k \in 1..Cardinality(I) |->
                      packages[CHOOSE i \in I : Cardinality({j \in I : j < i}) = k - 1]]
    IN  (pc = "done" /\ last.op = "with_progress")
            => /\ result.kind = "return"
               /\ last.calls = packages
               /\ Len(frame.success) + Len(frame.failed) = Len(packages)
               /\ \E I \in SUBSET DOMAIN packages :
                      /\ frame.success = sub(I)
                      /\ frame.failed = sub(DOMAIN packages \ I)

====
